---------------------------- MODULE Spec2Model ----------------------------
(***************************************************************************)
(* A model of the mailhonor/go-email parser (package emailparser).         *)
(*                                                                         *)
(* A byte is a string: a printable ASCII byte is its one-character string, *)
(* LF, CR and HT are "\n", "\r" and "\t", and every other byte value n is  *)
(* the string "x" \o ToString(n) (the grave accent, 96, included).  A      *)
(* []byte or a Go string is a sequence of bytes.  Offsets are the code's   *)
(* 0-based offsets: Slice(s, lo, hi) is Go's s[lo:hi] and At(s, i) is s[i].*)
(***************************************************************************)
EXTENDS Integers, Sequences, FiniteSets, TLC

VARIABLES
    pc,          \* which operation has run last ("init" before any)
    line,        \* the []byte argument of the header-value functions
    tokens,      \* result of ParseMimeValueTokenNodes(line)
    addrs,       \* result of ParseMimeAddress(line) / FirstOne
    params,      \* result of ParseMimeValueParams(line) and the accessor on it
    callerData,  \* the bytes the caller passed as EmailParserOptions.EmailData
    EmailData,   \* EmailParser.EmailData: the same backing array, as it is now
    trimCopies,  \* whether the go-utils trim functions return a copy (TRUE) or a
                 \* subslice of their argument (FALSE); go-utils is outside the repository
    parsers,     \* the EmailParsers built by EmailParserNew on EmailData, in call order
    facade,      \* the EmailParser's lazily derived fields and their Dealed flags
    derived,     \* per accessor, how many times its derivation has run
    shape        \* how the input of this behaviour was put together (never read by the code)

vars == <<pc, line, tokens, addrs, params, callerData, EmailData, trimCopies, parsers, facade, derived, shape>>

----------------------------------------------------------------------------
(* Byte tables *)

Lower == <<"a","b","c","d","e","f","g","h","i","j","k","l","m",
           "n","o","p","q","r","s","t","u","v","w","x","y","z">>
Upper == <<"A","B","C","D","E","F","G","H","I","J","K","L","M",
           "N","O","P","Q","R","S","T","U","V","W","X","Y","Z">>
Digits == <<"0","1","2","3","4","5","6","7","8","9">>

\* ASCII 32..126 in code order
AsciiTab == <<" ","!","\"","#","$","%","&","'","(",")","*","+",",","-",".","/">>
            \o Digits \o <<":",";","<","=",">","?","@">>
            \o Upper \o <<"[","\\","]","^","_","x96">>
            \o Lower \o <<"{","|","}","~">>

Range(s) == {s[i] : i \in 1..Len(s)}

LowerSet == Range(Lower)
UpperSet == Range(Upper)

UpMap == [c \in LowerSet |-> Upper[CHOOSE i \in 1..26 : Lower[i] = c]]
LowMap == [c \in UpperSet |-> Lower[CHOOSE i \in 1..26 : Upper[i] = c]]

ToUpperByte(c) == IF c \in LowerSet THEN UpMap[c] ELSE c
ToLowerByte(c) == IF c \in UpperSet THEN LowMap[c] ELSE c

\* strings.ToUpper / bytes.ToUpper / strings.ToLower on ASCII
ToUpper(s) == [i \in 1..Len(s) |-> ToUpperByte(s[i])]
ToLower(s) == [i \in 1..Len(s) |-> ToLowerByte(s[i])]

\* byte(n) for 0 <= n <= 255
ByteOf(n) ==
    IF n >= 32 /\ n <= 126 THEN AsciiTab[n - 31]
    ELSE IF n = 10 THEN "\n"
    ELSE IF n = 13 THEN "\r"
    ELSE IF n = 9 THEN "\t"
    ELSE "x" \o ToString(n)

----------------------------------------------------------------------------
(* Slices *)

Slice(s, lo, hi) == SubSeq(s, lo + 1, hi)
From(s, lo) == SubSeq(s, lo + 1, Len(s))
At(s, i) == s[i + 1]

MinOf(S) == CHOOSE m \in S : \A k \in S : m <= k
MaxOf(S) == CHOOSE m \in S : \A k \in S : m >= k
\* the least / greatest offset of a set of offsets, -1 if there is none
FirstOf(S) == IF S = {} THEN -1 ELSE MinOf(S)
LastOf(S) == IF S = {} THEN -1 ELSE MaxOf(S)

\* bytes.Index(s, pat): offset of the first occurrence, -1 if none
Index(s, pat) ==
    FirstOf({i \in 0..(Len(s) - Len(pat)) : SubSeq(s, i + 1, i + Len(pat)) = pat})

\* strings.LastIndex
LastIndex(s, pat) ==
    LastOf({i \in 0..(Len(s) - Len(pat)) : SubSeq(s, i + 1, i + Len(pat)) = pat})

\* bytes.IndexByte
IndexByte(s, c) == Index(s, <<c>>)

Contains(s, pat) == Index(s, pat) # -1

HasPrefix(s, pat) == Len(s) >= Len(pat) /\ SubSeq(s, 1, Len(pat)) = pat

\* offset of the first byte satisfying / not satisfying membership in set, -1 if none
IndexIn(s, set) == FirstOf({i \in 0..(Len(s) - 1) : s[i + 1] \in set})
IndexNotIn(s, set) == FirstOf({i \in 0..(Len(s) - 1) : s[i + 1] \notin set})
LastIndexNotIn(s, set) == LastOf({i \in 0..(Len(s) - 1) : s[i + 1] \notin set})

\* number of leading / trailing bytes of s that are in set
LeadIn(s, set) == MinOf({i \in 0..Len(s) : i = Len(s) \/ s[i + 1] \notin set})
TrailIn(s, set) == Len(s) - MaxOf({i \in 0..Len(s) : i = 0 \/ s[i] \notin set})

TrimLeftSet(s, set) == From(s, LeadIn(s, set))
TrimRightSet(s, set) == Slice(s, 0, Len(s) - TrailIn(s, set))
TrimSet(s, set) == TrimRightSet(TrimLeftSet(s, set), set)

\* unicode.IsSpace on a byte taken as a rune (Latin-1 range)
SpaceSet == {" ", "\t", "\n", "\r", "x11", "x12", "x133", "x160"}
\* strings.TrimSpace / bytes.TrimSpace on ASCII input
AsciiSpaceSet == {" ", "\t", "\n", "\r", "x11", "x12"}
TrimSpace(s) == TrimSet(s, AsciiSpaceSet)

\* the cutsets the code passes to the go-utils trim functions and strings.Trim
CutCRLF == {"\r", "\n"}
CutWS == {"\r", "\n", "\t", " "}
CutQuoteWS == {"\r", "\n", "\t", " ", "\"", "'"}
CutIdWS == {"\"", "<", ">", "\r", "\n", "\t", " "}
CutSPHT == {" ", "\t"}

RECURSIVE ConcatByteSlices(_)
ConcatByteSlices(ss) ==
    IF ss = <<>> THEN <<>> ELSE Head(ss) \o ConcatByteSlices(Tail(ss))

----------------------------------------------------------------------------
(* Decoders the tokeniser dispatches to *)

B64Tab == Upper \o Lower \o Digits \o <<"+", "/">>
B64Set == Range(B64Tab)
B64Val == [c \in B64Set |-> (CHOOSE i \in 1..64 : B64Tab[i] = c) - 1]

\* the three bytes of the 24 bits v
B64Bytes(v) == <<ByteOf(v \div 65536), ByteOf((v \div 256) % 256), ByteOf(v % 256)>>

\* the three bytes of one full quantum of four alphabet bytes
B64Quantum(q) ==
    B64Bytes(B64Val[q[1]] * 262144 + B64Val[q[2]] * 4096 + B64Val[q[3]] * 64 + B64Val[q[4]])

\* base64.StdEncoding.DecodeString(s), error dropped: the bytes decoded before
\* the first corrupt quantum (CR and LF are skipped by the decoder); k is the
\* number of alphabet bytes before the first other byte
RECURSIVE B64Quanta(_)
B64Quanta(s) ==
    IF s = <<>> THEN <<>>
    ELSE
        LET quantum(k) ==
                IF k >= 4 THEN B64Quantum(SubSeq(s, 1, 4)) \o B64Quanta(From(s, 4))
                ELSE IF k = Len(s) THEN <<>>            \* input ends inside a quantum
                ELSE IF At(s, k) # "=" THEN <<>>        \* illegal byte
                ELSE IF k < 2 THEN <<>>                 \* padding too early
                ELSE IF k = 2 THEN
                    IF Len(s) >= 4 /\ At(s, 3) = "="
                    THEN <<B64Quantum(<<s[1], s[2], "A", "A">>)[1]>>
                    ELSE <<>>
                ELSE SubSeq(B64Quantum(<<s[1], s[2], s[3], "A">>), 1, 2)
        IN quantum(LeadIn(s, B64Set))

StdBase64Decode(s) == B64Quanta(SelectSeq(s, LAMBDA c : c \notin CutCRLF))

\* decodeHeaderBase64: decode up to each run of "=" as an independent block
RECURSIVE decodeHeaderBase64(_)
decodeHeaderBase64(data) ==
    IF data = <<>> THEN <<>>
    ELSE
        LET block(end) ==
                StdBase64Decode(Slice(data, 0, end)) \o decodeHeaderBase64(From(data, end))
            padding(pos) ==
                IF pos < 0 THEN StdBase64Decode(data)
                ELSE block(pos + 1 + LeadIn(From(data, pos + 1), {"="}))
        IN padding(IndexByte(data, "="))

HexTab == Digits \o <<"A","B","C","D","E","F">>
HexSet == Range(HexTab) \cup {"a","b","c","d","e","f"}
HexVal == [c \in HexSet |-> (CHOOSE i \in 1..16 : HexTab[i] = ToUpperByte(c)) - 1]

\* quotedprintable.DecodeMimeHeader (go-utils): "_" is a space, "=HH" is the
\* byte HH, every other byte is itself
RECURSIVE DecodeMimeHeader(_)
DecodeMimeHeader(s) ==
    IF s = <<>> THEN <<>>
    ELSE IF s[1] = "_" THEN <<" ">> \o DecodeMimeHeader(Tail(s))
    ELSE IF s[1] = "=" /\ Len(s) >= 3 /\ s[2] \in HexSet /\ s[3] \in HexSet
         THEN <<ByteOf(HexVal[s[2]] * 16 + HexVal[s[3]])>> \o DecodeMimeHeader(From(s, 3))
    ELSE <<s[1]>> \o DecodeMimeHeader(Tail(s))

\* charset.ConvertToUTF8 (go-utils) on bytes that are already valid UTF-8 text
\* in the declared (or default) charset: the text is returned as it is.  Bytes
\* that are not ASCII are kept as the byte they are.
ConvertToUTF8(data, charset, defaultCharset) == data

----------------------------------------------------------------------------
(* Encoded-word tokeniser: ParseMimeValueTokenNodes *)

\* the push closure: append, or merge into the last item when charset and
\* encoding are equal and the charset is not empty
push(rs, item) ==
    IF item.Charset = <<>> \/ Len(rs) = 0 THEN Append(rs, item)
    ELSE
        LET last == rs[Len(rs)]
        IN IF last.Charset = item.Charset /\ last.Encoding = item.Encoding
           THEN [rs EXCEPT ![Len(rs)].Data = last.Data \o item.Data]
           ELSE Append(rs, item)

\* a raw item that keeps the bytes after the first two only
RawItemSkipTwo(data) == [Charset |-> <<>>, Data |-> From(data, 2), Encoding |-> <<>>]

\* a charset-less item
RawItem(data) == [Charset |-> <<>>, Data |-> data, Encoding |-> <<>>]

\* lineBufferFindChar
lineBufferFindChar(bf, chars) == IndexIn(bf, chars)

\* the scanning loop; one unfolding is one iteration.  bfB is bfBegin from
\* the "=?" on, rs1 is rs with the bytes before the "=?" pushed, bf1, bf2 and
\* bf3 are bf after the "=?", after the charset and after the encoding
RECURSIVE tokenLoop(_, _, _)
tokenLoop(bfBegin, magicOffset, rs) ==
    IF Len(bfBegin) = 0 THEN rs
    ELSE
        LET item(charset, encoding, data) ==
                [Charset |-> charset, Data |-> data, Encoding |-> encoding]
            payload(bf3, rs1, charset, encoding, epos, spos) ==
                IF epos > -1
                THEN tokenLoop(From(bf3, epos + 2), 0,
                               push(rs1, item(charset, encoding, Slice(bf3, 0, epos))))
                ELSE IF spos > -1
                THEN tokenLoop(From(bf3, spos), 0,
                               push(rs1, item(charset, encoding, Slice(bf3, 0, spos))))
                ELSE push(rs1, item(charset, encoding, bf3))
            encoded(bfB, rs1, charset, bf2, encoding) ==
                IF encoding # <<"B">> /\ encoding # <<"Q">> THEN tokenLoop(bfB, 2, rs1)
                ELSE IF At(bf2, 1) # "?" THEN tokenLoop(bfB, 2, rs1)
                ELSE payload(From(bf2, 2), rs1, charset, encoding,
                             Index(From(bf2, 2), <<"?", "=">>),
                             lineBufferFindChar(From(bf2, 2), CutSPHT))
            named(bfB, rs1, charset, bf2) ==
                IF Len(bf2) < 4 THEN tokenLoop(bfB, 2, rs1)
                ELSE encoded(bfB, rs1, charset, bf2, ToUpper(<<bf2[1]>>))
            magic(bfB, rs1, bf1, cpos) ==
                IF cpos < 2 THEN tokenLoop(bfB, 2, rs1)
                ELSE named(bfB, rs1, ToUpper(Slice(bf1, 0, cpos)), From(bf1, cpos + 1))
            found(pos) ==
                IF pos < 0 THEN push(rs, RawItem(bfBegin))
                ELSE magic(From(bfBegin, pos),
                           IF pos > 0 THEN push(rs, RawItem(Slice(bfBegin, 0, pos))) ELSE rs,
                           From(bfBegin, pos + 2),
                           IndexByte(From(bfBegin, pos + 2), "?"))
            offset(p0) == IF p0 # -1 THEN p0 + magicOffset ELSE p0
        IN found(offset(Index(From(bfBegin, magicOffset), <<"=", "?">>)))

\* the final conversion of one intermediate item
decodeItem(item) ==
    [Charset |-> item.Charset,
     Data |-> IF item.Encoding = <<"B">> THEN decodeHeaderBase64(item.Data)
              ELSE IF item.Encoding = <<"Q">> THEN DecodeMimeHeader(item.Data)
              ELSE item.Data]

decodeItems(rs) == [i \in 1..Len(rs) |-> decodeItem(rs[i])]

ParseMimeValueTokenNodes(ln) == decodeItems(tokenLoop(ln, 0, <<>>))

\* the token nodes transcoded and joined
JoinNodes(nodes, defaultCharset) ==
    ConcatByteSlices([i \in 1..Len(nodes) |->
        ConvertToUTF8(nodes[i].Data, nodes[i].Charset, defaultCharset)])

\* ParseMimeValueString: the tokens transcoded and joined
ParseMimeValueString(ln, defaultCharset) ==
    JoinNodes(ParseMimeValueTokenNodes(ln), defaultCharset)

----------------------------------------------------------------------------
(* Value + parameter parser: ParseMimeValueParams *)

\* ParseMimeValueParams_unescapeQuotedBytes
RECURSIVE ParseMimeValueParams_unescapeQuotedBytes(_)
ParseMimeValueParams_unescapeQuotedBytes(b) ==
    IF b = <<>> THEN <<>>
    ELSE IF b[1] = "\\" /\ Len(b) > 1 /\ b[2] \in {"\"", "\\"}
         THEN <<b[2]>> \o ParseMimeValueParams_unescapeQuotedBytes(From(b, 2))
    ELSE <<b[1]>> \o ParseMimeValueParams_unescapeQuotedBytes(Tail(b))

\* the closing-quote search shared by the quoted principal value and the
\* quoted parameter value: the first quote from offset 1 whose previous byte
\* is not a backslash, -1 if none
closeQuoteIdx(content) ==
    LET hits == {i \in 1..(Len(content) - 1) : At(content, i) = "\"" /\ At(content, i - 1) # "\\"}
    IN IF hits = {} THEN -1 ELSE MinOf(hits)

\* bytes.TrimSuffix(b, `"`)
TrimSuffixQuote(b) == IF Len(b) > 0 /\ b[Len(b)] = "\"" THEN Slice(b, 0, Len(b) - 1) ELSE b

\* ParseMimeValueParams_parseQuotedParamValue on content starting with a
\* quote: <<value, consumed length>>
ParseMimeValueParams_parseQuotedParamValue(content) ==
    LET c == closeQuoteIdx(content)
    IN IF c # -1
       THEN <<ParseMimeValueParams_unescapeQuotedBytes(Slice(content, 1, c)), c + 1>>
       ELSE <<ParseMimeValueParams_unescapeQuotedBytes(TrimSuffixQuote(From(content, 1))), Len(content)>>

\* ParseMimeValueParams_parseUnquotedParamValue: <<value, consumed length>>
ParseMimeValueParams_parseUnquotedParamValue(content) ==
    LET i == IndexIn(content, {";"} \cup SpaceSet)
    IN IF i # -1 THEN <<Slice(content, 0, i), i>> ELSE <<content, Len(content)>>

\* ParseMimeValueParams_parseValue: <<principal value, valueEnd>>
ParseMimeValueParams_parseValue(content) ==
    IF Len(content) > 0 /\ content[1] = "\""
    THEN ParseMimeValueParams_parseQuotedParamValue(content)
    ELSE ParseMimeValueParams_parseUnquotedParamValue(content)

\* ParseMimeValueParams_skipToNextParam
ParseMimeValueParams_skipToNextParam(content) ==
    LET semicolonIdx == IndexByte(content, ";")
    IN IF semicolonIdx = -1 THEN <<>>
       ELSE TrimLeftSet(From(content, semicolonIdx + 1), AsciiSpaceSet)

\* a Go map[string][]byte is a function from its keys
MapHas(mp, k) == k \in DOMAIN mp
MapPutLast(mp, k, v) == (k :> v) @@ mp
MapPutIfAbsent(mp, k, v) == IF k \in DOMAIN mp THEN mp ELSE (k :> v) @@ mp

\* ParseMimeValueParams_parseParams; one unfolding is one iteration
RECURSIVE ParseMimeValueParams_parseParams(_, _)
ParseMimeValueParams_parseParams(current, mp) ==
    IF Len(current) = 0 THEN mp
    ELSE
        LET stop == IndexIn(current, {"=", ";"} \cup SpaceSet)
            nameEnd == IF stop = -1 THEN Len(current) ELSE stop
            name == TrimSpace(Slice(current, 0, nameEnd))
        IN IF Len(name) = 0
           THEN ParseMimeValueParams_parseParams(
                    ParseMimeValueParams_skipToNextParam(From(current, nameEnd)), mp)
           ELSE
               LET cur1 == TrimLeftSet(From(current, nameEnd), AsciiSpaceSet)
               IN IF Len(cur1) = 0 \/ cur1[1] # "="
                  THEN ParseMimeValueParams_parseParams(
                           ParseMimeValueParams_skipToNextParam(cur1), mp)
                  ELSE
                      LET cur2 == TrimLeftSet(Tail(cur1), AsciiSpaceSet)
                          vl == IF Len(cur2) > 0 /\ cur2[1] = "\""
                                THEN ParseMimeValueParams_parseQuotedParamValue(cur2)
                                ELSE ParseMimeValueParams_parseUnquotedParamValue(cur2)
                      IN ParseMimeValueParams_parseParams(
                             ParseMimeValueParams_skipToNextParam(From(cur2, vl[2])),
                             MapPutIfAbsent(mp, ToUpper(name), vl[1]))

ParseMimeValueParams(data) ==
    LET content == TrimLeftSet(data, CutSPHT)
    IN IF Len(content) = 0 THEN [Value |-> <<>>, Params |-> <<>>]
       ELSE
           LET pv == ParseMimeValueParams_parseValue(content)
           IN [Value |-> pv[1],
               Params |-> IF pv[2] < Len(content)
                          THEN ParseMimeValueParams_parseParams(
                                   TrimLeftSet(From(content, pv[2]), {";"} \cup AsciiSpaceSet), <<>>)
                          ELSE <<>>]

TrimmedValue(m) == TrimSet(m.Value, CutQuoteWS)

TrimmedParam(m, key) ==
    IF MapHas(m.Params, ToUpper(key)) THEN TrimSet(m.Params[ToUpper(key)], CutQuoteWS) ELSE <<>>

ParamExist(m, key) == MapHas(m.Params, ToUpper(key))

----------------------------------------------------------------------------
(* 2231 tokeniser and the decoded-parameter accessor *)

\* the percent-decoding loop of ParseMimeValueTokenNodes2231
RECURSIVE percentDecode(_)
percentDecode(str) ==
    IF str = <<>> THEN <<>>
    ELSE IF str[1] = "%" /\ 2 < Len(str) /\ str[2] \in HexSet /\ str[3] \in HexSet
         THEN <<ByteOf(HexVal[str[2]] * 16 + HexVal[str[3]])>> \o percentDecode(From(str, 3))
    ELSE <<str[1]>> \o percentDecode(Tail(str))

ParseMimeValueTokenNodes2231(ln, withCharset) ==
    IF ~withCharset THEN ParseMimeValueTokenNodes(ln)
    ELSE
        LET node(charset, bf2) == <<[Charset |-> charset, Data |-> percentDecode(bf2)]>>
            language(charset, bf1, pos2) ==
                node(charset, IF pos2 > -1 THEN From(bf1, pos2 + 1) ELSE bf1)
            quote(pos) ==
                IF pos < 0 THEN <<[Charset |-> <<>>, Data |-> ln]>>
                ELSE language(ToUpper(TrimSpace(Slice(ln, 0, pos))), From(ln, pos + 1),
                              IndexByte(From(ln, pos + 1), "'"))
        IN quote(IndexByte(ln, "'"))

ParseMimeValueString2231(ln, withCharset, defaultCharset) ==
    JoinNodes(ParseMimeValueTokenNodes2231(ln, withCharset), defaultCharset)

\* strconv.Itoa for i >= 0
RECURSIVE Itoa(_)
Itoa(i) == IF i < 10 THEN <<Digits[i + 1]>> ELSE Itoa(i \div 10) \o <<Digits[(i % 10) + 1]>>

CountByte(s, c) == Cardinality({i \in 1..Len(s) : s[i] = c})

\* the continuation loops: the values of key*0<star>, key*1<star>, ... up to
\* the first index that is missing
RECURSIVE segmentValues(_, _, _, _), segmentValuesDescending(_, _, _, _)
\* (mutation: the segments are joined last index first)
segmentValuesDescending(mp, key, star, i) ==
    LET k == key \o <<"*">> \o Itoa(i) \o star
    IN IF MapHas(mp, k) THEN segmentValuesDescending(mp, key, star, i + 1) \o <<mp[k]>> ELSE <<>>
segmentValues(mp, key, star, i) ==
    LET k == key \o <<"*">> \o Itoa(i) \o star
    IN IF MapHas(mp, k) THEN <<mp[k]>> \o segmentValues(mp, key, star, i + 1) ELSE <<>>

\* ParseParamStringValue, as the token nodes it decodes (decodedParamNodes)
\* and the string it returns
decodedParamNodes(m, key0) ==
    LET key == ToUpper(key0)
        mp == m.Params
    IN IF MapHas(mp, key) THEN ParseMimeValueTokenNodes(mp[key])
       ELSE IF MapHas(mp, key \o <<"*">>)
            THEN ParseMimeValueTokenNodes2231(mp[key \o <<"*">>],
                                              CountByte(mp[key \o <<"*">>], "'") = 2)
       ELSE IF MapHas(mp, key \o <<"*","0","*">>)
            THEN ParseMimeValueTokenNodes2231(
                     ConcatByteSlices(segmentValues(mp, key, <<"*">>, 0)), TRUE)
       ELSE IF MapHas(mp, key \o <<"*","0">>)
            THEN ParseMimeValueTokenNodes2231(
                     ConcatByteSlices(segmentValues(mp, key, <<>>, 0)), FALSE)
       ELSE <<>>

ParseParamStringValue(m, key, defaultCharset) ==
    JoinNodes(decodedParamNodes(m, key), defaultCharset)

----------------------------------------------------------------------------
(* Address-list parser: ParseMimeAddress *)

\* parseMimeAddress_lineBufferSkipChar
parseMimeAddress_lineBufferSkipChar(bf, chars) == IndexNotIn(bf, chars)

\* the quoted-string loop of parseMimeAddress_decodeOne, entered after the
\* opening quote: <<i, tmpbf[:tmpbfI]>> when it ends
RECURSIVE quotedScan(_, _, _)
quotedScan(bf, i, tmp) ==
    IF i >= Len(bf) THEN <<i, tmp>>
    ELSE
        LET ch == At(bf, i)
        IN IF ch = "\\"
           THEN IF i + 1 < Len(bf)
                THEN quotedScan(bf, i + 2, Append(tmp, At(bf, i + 1)))
                ELSE quotedScan(bf, i + 1, tmp)
           ELSE IF ch = "\"" THEN <<i + 1, tmp>>
           ELSE quotedScan(bf, i + 1, Append(tmp, ch))

\* the angle-addr loop, entered after "<": the address is nil (addrSet
\* FALSE) when the input ends before any address byte is stored
RECURSIVE angleScan(_, _, _, _)
angleScan(bf, i, tmp, name) ==
    IF i >= Len(bf) THEN [i |-> i, name |-> name, address |-> <<>>, addrSet |-> FALSE]
    ELSE
        LET ch == At(bf, i)
        IN IF ch = "<"
           THEN angleScan(bf, i + 1, <<>>, name \o <<"<">> \o tmp \o <<" ">>)
           ELSE IF ch \in {",", ";", ">"}
           THEN [i |-> i + 1, name |-> name, address |-> tmp, addrSet |-> TRUE]
           ELSE IF i + 1 = Len(bf)
           THEN [i |-> i + 1, name |-> name, address |-> Append(tmp, ch), addrSet |-> TRUE]
           ELSE angleScan(bf, i + 1, Append(tmp, ch), name)

\* the main loop of parseMimeAddress_decodeOne
RECURSIVE addressScan(_, _, _)
addressScan(bf, i, tmp) ==
    IF i >= Len(bf)
    THEN [i |-> i, name |-> <<>>, nameSet |-> FALSE, address |-> <<>>, addrSet |-> FALSE]
    ELSE
        LET ch == At(bf, i)
        IN IF ch = "\""
           THEN LET afterQuoted(q) ==
                        IF q[1] = Len(bf)
                        THEN [i |-> q[1], name |-> q[2], nameSet |-> TRUE,
                              address |-> <<>>, addrSet |-> FALSE]
                        ELSE addressScan(bf, q[1], q[2])
                IN afterQuoted(quotedScan(bf, i + 1, tmp))
           ELSE IF ch \in {",", ";"}
           THEN [i |-> i + 1, name |-> tmp, nameSet |-> TRUE, address |-> <<>>, addrSet |-> FALSE]
           ELSE IF ch = "<"
           THEN LET afterAngle(r) ==
                        [i |-> r.i, name |-> r.name, nameSet |-> TRUE,
                         address |-> r.address, addrSet |-> r.addrSet]
                IN afterAngle(angleScan(bf, i + 1, <<>>, tmp))
           ELSE IF i + 1 = Len(bf)
           THEN [i |-> i + 1, name |-> Append(tmp, ch), nameSet |-> TRUE,
                 address |-> <<>>, addrSet |-> FALSE]
           ELSE addressScan(bf, i + 1, Append(tmp, ch))

\* parseMimeAddress_decodeOne; isNil is the nil result
parseMimeAddress_decodeOne(ln) ==
    LET \* the name holds the address when no "<" came and the name has an "@"
        result(bf, r, moved) ==
            [isNil |-> FALSE, leftbf |-> From(bf, r.i),
             nameBuffer |-> IF moved THEN <<>> ELSE r.name,
             address |-> TrimSpace(IF moved THEN r.name ELSE r.address)]
        scanned(bf, r) ==
            result(bf, r, ~r.addrSet /\ r.nameSet /\ Contains(r.name, <<"@">>))
        scan(bf) == scanned(bf, addressScan(bf, 0, <<>>))
        skipped(pos) ==
            IF pos < 0
            THEN [isNil |-> TRUE, leftbf |-> <<>>, nameBuffer |-> <<>>, address |-> <<>>]
            ELSE scan(From(ln, pos))
    IN skipped(parseMimeAddress_lineBufferSkipChar(ln, CutSPHT))

\* the collecting loop of ParseMimeAddress
RECURSIVE collectAddresses(_, _), collectAddressesKeepEmpty(_, _)
\* (mutation: an item with neither name nor email is kept)
collectAddressesKeepEmpty(bf, mas) ==
    IF Len(bf) = 0 THEN mas
    ELSE
        LET collect(ma) ==
                IF ma.isNil THEN mas
                ELSE collectAddressesKeepEmpty(ma.leftbf,
                         Append(mas, [NameRaw |-> ma.nameBuffer, Email |-> ma.address]))
        IN collect(parseMimeAddress_decodeOne(bf))
collectAddresses(bf, mas) ==
    IF Len(bf) = 0 THEN mas
    ELSE
        LET collect(ma) ==
                IF ma.isNil THEN mas
                ELSE collectAddresses(ma.leftbf,
                         IF ma.address # <<>> \/ Len(ma.nameBuffer) > 0
                         THEN Append(mas, [NameRaw |-> ma.nameBuffer, Email |-> ma.address])
                         ELSE mas)
        IN collect(parseMimeAddress_decodeOne(bf))

\* the final email conversion of ParseMimeAddress
\* (mutation: the strings.ToLower is missing)
emailOfKeepCase(address) == TrimSet(address, CutQuoteWS)
emailOf(address) == ToLower(TrimSet(address, CutQuoteWS))

ParseMimeAddress(ln, defaultCharset) ==
    LET decoded(mas) ==
            [i \in 1..Len(mas) |->
                [NameRaw |-> mas[i].NameRaw,
                 Name |-> TrimSet(ParseMimeValueString(mas[i].NameRaw, defaultCharset), CutQuoteWS),
                 Email |-> emailOf(mas[i].Email)]]
    IN decoded(collectAddresses(ln, <<>>))

EmptyMimeAddress == [NameRaw |-> <<>>, Name |-> <<>>, Email |-> <<>>]

ParseMimeAddressFirstOne(ln, defaultCharset) ==
    LET first(mas) == IF Len(mas) > 0 THEN mas[1] ELSE EmptyMimeAddress
    IN first(ParseMimeAddress(ln, defaultCharset))

----------------------------------------------------------------------------
(* MIME tree parser: scanAllBoundaries, parseMimeSelf, parseMime            *)

\* the header names, parameter names and type texts parseMimeSelf and
\* parseMime compare with
cPart ==
    [ContentTransferEncoding |-> <<"C","O","N","T","E","N","T","-","T","R","A","N","S","F","E","R","-","E","N","C","O","D","I","N","G">>,
     ContentType |-> <<"C","O","N","T","E","N","T","-","T","Y","P","E">>,
     ContentDisposition |-> <<"C","O","N","T","E","N","T","-","D","I","S","P","O","S","I","T","I","O","N">>,
     ContentID |-> <<"C","O","N","T","E","N","T","-","I","D">>,
     CHARSET |-> <<"C","H","A","R","S","E","T">>,
     NAME |-> <<"N","A","M","E">>,
     BOUNDARY |-> <<"B","O","U","N","D","A","R","Y">>,
     FILENAME |-> <<"F","I","L","E","N","A","M","E">>,
     MultipartSlash |-> <<"M","U","L","T","I","P","A","R","T","/">>,
     TextPlain |-> <<"T","E","X","T","/","P","L","A","I","N">>,
     Text |-> <<"T","E","X","T">>]

cUTF8 == <<"U","T","F","-","8">>
cutf8 == <<"u","t","f","-","8">>

\* the loop of scanAllBoundaries; one unfolding is one iteration
RECURSIVE scanLoop(_, _, _)
scanLoop(raw, offset, boundaries) ==
    IF offset >= Len(raw) THEN boundaries
    ELSE
        LET rawLen == Len(raw)
            atStart(start) ==
                LET boundaryStart == start + 2
                    atNewline(nlPos) ==
                        IF nlPos = -1 \/ boundaryStart + nlPos > rawLen THEN boundaries
                        ELSE scanLoop(raw, boundaryStart + nlPos + 1,
                                 Append(boundaries,
                                     [Boundary |-> TrimSpace(Slice(raw, boundaryStart, boundaryStart + nlPos)),
                                      Start |-> start,
                                      End |-> boundaryStart + nlPos + 1]))
                IN atNewline(Index(From(raw, boundaryStart), <<"\n">>))
            afterNewline(nlPos) ==
                IF nlPos = -1 THEN boundaries ELSE atStart(offset + nlPos + 1)
        IN IF HasPrefix(From(raw, offset), <<"-","-">>)
           THEN atStart(offset)
           ELSE afterNewline(Index(From(raw, offset), <<"\n","-","-">>))

\* a scan that begins after the first byte
scanAllBoundariesAfterFirst(raw) == scanLoop(raw, 1, <<>>)

\* scanAllBoundaries
scanAllBoundaries(raw) == scanLoop(raw, 0, <<>>)

\* emailParserAppendOneLine with the name in the letter case it is written in
emailParserAppendOneLineAsWritten(lines, lineData) ==
    LET split(pos) ==
            IF pos = -1
            THEN Append(lines, [Name |-> TrimSpace(lineData), Value |-> <<>>])
            ELSE Append(lines, [Name |-> TrimSpace(Slice(lineData, 0, pos)),
                                Value |-> TrimSpace(From(lineData, pos + 1))])
    IN split(Index(lineData, <<":">>))

\* emailParserAppendOneLine: a line without ":" gives a name and a nil value
emailParserAppendOneLine(lines, lineData) ==
    LET split(pos) ==
            IF pos = -1
            THEN Append(lines, [Name |-> ToUpper(TrimSpace(lineData)), Value |-> <<>>])
            ELSE Append(lines, [Name |-> ToUpper(TrimSpace(Slice(lineData, 0, pos))),
                                Value |-> TrimSpace(From(lineData, pos + 1))])
    IN split(Index(lineData, <<":">>))

\* GetHeaderValue: the value of the first line of that name; found is err == nil
RECURSIVE GetHeaderValue(_, _)
GetHeaderValue(Header, headerName) ==
    IF Header = <<>> THEN [found |-> FALSE, value |-> <<>>]
    ELSE IF Head(Header).Name = ToUpper(headerName)
         THEN [found |-> TRUE, value |-> Head(Header).Value]
    ELSE GetHeaderValue(Tail(Header), headerName)

GetHeaderValueIgnoreNotFound(Header, headerName) == GetHeaderValue(Header, headerName).value

\* A []byte the header loop holds is a window [lo, lo + n) of the backing
\* array mem of emailPartData (own = FALSE), or an array of its own.
NilLine == [own |-> TRUE, bytes |-> <<>>, lo |-> 0, n |-> 0]
WindowLine(lo, n) == [own |-> FALSE, bytes |-> <<>>, lo |-> lo, n |-> n]
OwnLine(bytes) == [own |-> TRUE, bytes |-> bytes, lo |-> 0, n |-> 0]
logicBytes(mem, ll) == IF ll.own THEN ll.bytes ELSE Slice(mem, ll.lo, ll.lo + ll.n)

\* mem with bytes written at offset at
WriteAt(mem, at, bytes) ==
    [i \in 1..Len(mem) |->
        IF i > at /\ i <= at + Len(bytes) THEN bytes[i - at] ELSE mem[i]]

\* logicLine = append(logicLine, line[1:]...): a window has the capacity of
\* the rest of the backing array, so the bytes are written in place after it
appendContinuation(mem, ll, lineStart, lineLen) ==
    LET rest == Slice(mem, lineStart + 1, lineStart + lineLen)
    IN IF ll.own THEN [mem |-> mem, ll |-> OwnLine(ll.bytes \o rest)]
       ELSE IF ll.lo + ll.n + Len(rest) > Len(mem)
            THEN [mem |-> mem, ll |-> OwnLine(logicBytes(mem, ll) \o rest)]
       ELSE [mem |-> WriteAt(mem, ll.lo + ll.n, rest),
             ll |-> WindowLine(ll.lo, ll.n + Len(rest))]

\* mailhonorstringutils.TrimRightBytes(logicLine, "\r\n")
TrimRightBytes(mem, ll, copies) ==
    LET kept(b) ==
            IF ll.own \/ copies THEN OwnLine(b) ELSE WindowLine(ll.lo, Len(b))
    IN kept(TrimRightSet(logicBytes(mem, ll), CutCRLF))

\* the header loop of parseMimeSelf; data is mem[dpos, dend); one unfolding
\* is one iteration
RECURSIVE headerLoop(_, _, _, _, _, _)
headerLoop(mem, dpos, dend, logicLine, Header, copies) ==
    IF dpos >= dend
    THEN [mem |-> mem, dpos |-> dpos, logicLine |-> logicLine, Header |-> Header]
    ELSE
        LET atIdx(idx) ==
                LET lineLen == IF idx = -1 THEN dend - dpos ELSE idx + 1
                    first == At(mem, dpos)
                    stop == idx = 0 \/ (idx = 1 /\ first = "\r")
                    next(mem2, ll2, Header2) ==
                        IF stop
                        THEN [mem |-> mem2, dpos |-> dpos + lineLen,
                              logicLine |-> ll2, Header |-> Header2]
                        ELSE headerLoop(mem2, dpos + lineLen, dend, ll2, Header2, copies)
                    trimmed(mem2, ll1, Header2) ==
                        next(mem2, TrimRightBytes(mem2, ll1, copies), Header2)
                    appended(a) == trimmed(a.mem, a.ll, Header)
                    flushed(old) ==
                        trimmed(mem, WindowLine(dpos, lineLen),
                                IF Len(old) > 0 THEN emailParserAppendOneLine(Header, old)
                                ELSE Header)
                IN IF first \in {" ", "\t"}
                   THEN appended(appendContinuation(mem, logicLine, dpos, lineLen))
                   ELSE flushed(logicBytes(mem, logicLine))
        IN atIdx(Index(Slice(mem, dpos, dend), <<"\n">>))

\* HeaderLen, BodyStart and BodyLen of a part of partLen bytes at mem[start..]
\* of which the header loop consumed the first consumed bytes
\* (mutation: BodyLen is the length of the whole part)
partOffsetsBodyWhole(mem, start, partLen, consumed) ==
    LET noLF == IF consumed > 0 /\ At(mem, start + consumed - 1) = "\n"
                THEN consumed - 1 ELSE consumed
        noCR == IF noLF > 0 /\ At(mem, start + noLF - 1) = "\r" THEN noLF - 1 ELSE noLF
    IN [HeaderLen |-> noCR, BodyStart |-> consumed, BodyLen |-> partLen]
partOffsets(mem, start, partLen, consumed) ==
    LET noLF == IF consumed > 0 /\ At(mem, start + consumed - 1) = "\n"
                THEN consumed - 1 ELSE consumed
        noCR == IF noLF > 0 /\ At(mem, start + noLF - 1) = "\r" THEN noLF - 1 ELSE noLF
    IN [HeaderLen |-> noCR, BodyStart |-> consumed, BodyLen |-> partLen - consumed]

\* the fields parseMimeSelf derives from the header lines
encodingOf(h) ==
    IF h.found THEN ToUpper(TrimSpace(ParseMimeValueParams(h.value).Value)) ELSE <<>>

typeFields(vp, DefaultCharset) ==
    [ContentType |-> ToUpper(TrimSpace(vp.Value)),
     Charset |-> ToUpper(TrimmedParam(vp, cPart.CHARSET)),
     Name |-> ParseParamStringValue(vp, cPart.NAME, DefaultCharset),
     Boundary |-> TrimmedParam(vp, cPart.BOUNDARY)]

defaultType(t) ==
    IF t.ContentType = <<>> \/ t.ContentType = cPart.Text
    THEN [t EXCEPT !.ContentType = cPart.TextPlain] ELSE t

typeOf(h, DefaultCharset) ==
    defaultType(IF h.found THEN typeFields(ParseMimeValueParams(h.value), DefaultCharset)
                ELSE [ContentType |-> <<>>, Charset |-> <<>>,
                      Name |-> <<>>, Boundary |-> <<>>])

dispositionFields(vp, DefaultCharset) ==
    [Disposition |-> ToUpper(TrimSpace(vp.Value)),
     Filename |-> ParseParamStringValue(vp, cPart.FILENAME, DefaultCharset)]

dispositionOf(h, DefaultCharset) ==
    IF h.found THEN dispositionFields(ParseMimeValueParams(h.value), DefaultCharset)
    ELSE [Disposition |-> <<>>, Filename |-> <<>>]

contentIDOf(h) == IF h.found THEN TrimSet(h.value, CutIdWS) ELSE <<>>

contentFields(Header, DefaultCharset) ==
    [Encoding |-> encodingOf(GetHeaderValue(Header, cPart.ContentTransferEncoding)),
     type |-> typeOf(GetHeaderValue(Header, cPart.ContentType), DefaultCharset),
     disposition |-> dispositionOf(GetHeaderValue(Header, cPart.ContentDisposition), DefaultCharset),
     ContentID |-> contentIDOf(GetHeaderValue(Header, cPart.ContentID))]

\* the MIMENode parseMimeSelf returns; Parent and Childs are indices into
\* the node table, 0 for nil
newMIMENode(Header, off, f) ==
    [HeaderStart |-> 0, HeaderLen |-> off.HeaderLen,
     BodyStart |-> off.BodyStart, BodyLen |-> off.BodyLen,
     Header |-> Header,
     ContentType |-> f.type.ContentType, Encoding |-> f.Encoding,
     Charset |-> f.type.Charset, Boundary |-> f.type.Boundary,
     Filename |-> f.disposition.Filename, Name |-> f.type.Name,
     ContentID |-> f.ContentID, Disposition |-> f.disposition.Disposition,
     isTnef |-> FALSE, isInline |-> FALSE,
     Parent |-> 0, Childs |-> <<>>]

\* the line the header loop holds when it ends is a header line too
flushLogicLine(r) ==
    IF Len(logicBytes(r.mem, r.logicLine)) > 0
    THEN emailParserAppendOneLine(r.Header, logicBytes(r.mem, r.logicLine))
    ELSE r.Header

\* the node of a part whose header loop has consumed the first consumed bytes
nodeOfPart(mem, start, partLen, Header, consumed, DefaultCharset) ==
    newMIMENode(Header, partOffsets(mem, start, partLen, consumed),
                contentFields(Header, DefaultCharset))

\* what parseMimeSelf does with the state r its header loop ends in
afterHeaderLoop(r, start, partLen, DefaultCharset) ==
    [mem |-> r.mem,
     node |-> nodeOfPart(r.mem, start, partLen, flushLogicLine(r), r.dpos - start,
                         DefaultCharset)]

\* parseMimeSelf on emailPartData = mem[start, start + partLen): the node
\* and the backing array as the header loop leaves it
parseMimeSelf(mem, start, partLen, copies, DefaultCharset) ==
    afterHeaderLoop(headerLoop(mem, start, start + partLen, NilLine, <<>>, copies),
                    start, partLen, DefaultCharset)

\* a []byte argument of parseMime: a window of EmailData or an array of its own
WindowPart(start, len) == [own |-> FALSE, bytes |-> <<>>, start |-> start, len |-> len]
OwnPart(bytes) == [own |-> TRUE, bytes |-> bytes, start |-> 0, len |-> Len(bytes)]

\* mailhonorstringutils.TrimBytes(p.EmailData[from:], "\r\n\t ")
TrimBytes(buf, from, copies) ==
    LET tmpdata == From(buf, from)
    IN IF copies THEN OwnPart(TrimSet(tmpdata, CutWS))
       ELSE WindowPart(from + LeadIn(tmpdata, CutWS), Len(TrimSet(tmpdata, CutWS)))

PartBytes(buf, part) ==
    IF part.own THEN part.bytes ELSE Slice(buf, part.start, part.start + part.len)

\* the least length of the bytes after the last delimiter that are parsed as a part
TrailingMinLen == 10

\* node.Childs = append(node.Childs, newNode) on the parser state a child's
\* parseMime returned
appendChild(st, id) ==
    IF st.panicked THEN st
    ELSE [st EXCEPT !.nodes[id].Childs = Append(@, st.id), !.id = id]

\* the backing array of a part
PartMem(buf, part) == IF part.own THEN part.bytes ELSE buf

\* the parser state with the node r.node of parseMimeSelf added: HeaderStart
\* and BodyStart moved by offset, EmailData as the header loop left it
addNode(st, offset, part, parent, r) ==
    [buf |-> IF part.own THEN st.buf ELSE r.mem,
     nodes |-> Append(st.nodes,
                   [r.node EXCEPT !.HeaderStart = @ + offset,
                                  !.BodyStart = @ + offset,
                                  !.Parent = parent]),
     panicked |-> FALSE,
     id |-> Len(st.nodes) + 1]

\* the boundaries parseMime hands to the child between the delimiters
\* lastId and i
newBoundaries(boundaries, lastId, i) ==
    IF lastId + 1 < i - 1 THEN Slice(boundaries, lastId + 1, i - 1) ELSE <<>>

\* parseMime: st is the parser state (EmailData as buf, the nodes made so
\* far, whether a slice expression has faulted); the result's id is the
\* index of the node made for this part
RECURSIVE parseMime(_, _, _, _, _, _, _), childLoop(_, _, _, _, _, _, _)
RECURSIVE parseChilds(_, _, _, _), trailingChild(_, _, _, _, _), trailingPart(_, _, _, _, _, _)
\* the loop over the boundaries; one unfolding is one iteration
childLoop(st, id, boundaries, i, lastId, copies, DefaultCharset) ==
    IF st.panicked \/ i >= Len(boundaries) THEN [st |-> st, lastId |-> lastId]
    ELSE
        LET bo == boundaries[i + 1]
            Boundary == st.nodes[id].Boundary
            so == boundaries[lastId + 1]
        IN IF bo.Boundary # Boundary /\ bo.Boundary # Boundary \o <<"-","-">>
           THEN childLoop(st, id, boundaries, i + 1, lastId, copies, DefaultCharset)
           ELSE IF lastId = -1
           THEN childLoop(st, id, boundaries, i + 1, i, copies, DefaultCharset)
           ELSE IF so.End > bo.Start - 1
           THEN [st |-> [st EXCEPT !.panicked = TRUE], lastId |-> lastId]
           ELSE childLoop(appendChild(parseMime(st, so.End,
                                                WindowPart(so.End, bo.Start - 1 - so.End),
                                                newBoundaries(boundaries, lastId, i),
                                                id, copies, DefaultCharset),
                                      id),
                          id, boundaries, i + 1, i, copies, DefaultCharset)
\* the part made of tmpdata, the trimmed bytes after the last delimiter
trailingPart(st, id, after, tmpdata, copies, DefaultCharset) ==
    IF Len(PartBytes(st.buf, tmpdata)) > TrailingMinLen
       /\ Contains(PartBytes(st.buf, tmpdata), <<"\n">>)
    THEN appendChild(parseMime(st, after, tmpdata, <<>>, id, copies, DefaultCharset), id)
    ELSE st
\* what parseMime does after the loop, r being the state and lastId it ended in
trailingChild(r, id, boundaries, copies, DefaultCharset) ==
    IF r.st.panicked \/ r.lastId = -1 THEN r.st
    ELSE IF Len(r.st.buf) - boundaries[r.lastId + 1].End > 0
         THEN trailingPart(r.st, id, boundaries[r.lastId + 1].End,
                           TrimBytes(r.st.buf, boundaries[r.lastId + 1].End, copies),
                           copies, DefaultCharset)
    ELSE r.st
\* what parseMime does once the node of the part is made
parseChilds(st, boundaries, copies, DefaultCharset) ==
    IF ~HasPrefix(st.nodes[st.id].ContentType, cPart.MultipartSlash) THEN st
    ELSE IF st.nodes[st.id].Boundary = <<>> THEN st
    ELSE trailingChild(childLoop(st, st.id, boundaries, 0, -1, copies, DefaultCharset),
                       st.id, boundaries, copies, DefaultCharset)
parseMime(st, offset, part, boundaries, parent, copies, DefaultCharset) ==
    parseChilds(addNode(st, offset, part, parent,
                        parseMimeSelf(PartMem(st.buf, part), part.start, part.len,
                                      copies, DefaultCharset)),
                boundaries, copies, DefaultCharset)

\* EmailParserNew: the parser it returns, and EmailData as parsing leaves
\* it; when a slice expression faults nothing is returned (panicked)
EmailParserNew(options, copies) ==
    LET DefaultCharset ==
            IF options.DefaultCharset = <<>> THEN cUTF8 ELSE options.DefaultCharset
        returned(r) ==
            [EmailData |-> r.buf,
             parser |-> [DefaultCharset |-> DefaultCharset,
                         nodes |-> IF r.panicked THEN <<>> ELSE r.nodes,
                         topNode |-> IF r.panicked THEN 0 ELSE r.id,
                         panicked |-> r.panicked]]
    IN returned(parseMime([buf |-> options.EmailData, nodes |-> <<>>,
                           panicked |-> FALSE, id |-> 0],
                          0, WindowPart(0, Len(options.EmailData)),
                          scanAllBoundaries(options.EmailData), 0,
                          copies, DefaultCharset))

----------------------------------------------------------------------------
(* Values every specification starts its unused variables with *)

NoParsers == <<>>
NoFacade == <<>>
NoDerived == <<>>

----------------------------------------------------------------------------
(* SpecTokens: ParseMimeValueTokenNodes on header values built from pieces *)

MaxTokPieces == 3


\* "=?" charset "?" encoding "?" payload "?="
EncodedWord(w) == <<"=","?">> \o w.cs \o <<"?">> \o w.enc \o <<"?">> \o w.data \o <<"?","=">>

\* well-formed encoded-words
GoodWords ==
    { [cs |-> cUTF8, enc |-> <<"B">>, data |-> <<"A","B">>],
      [cs |-> cUTF8, enc |-> <<"B">>, data |-> <<"C","D">>],
      [cs |-> cUTF8, enc |-> <<"B">>, data |-> <<"Q","U","J","D">>],
      [cs |-> cutf8, enc |-> <<"q">>, data |-> <<"a","_","b">>] }

\* malformed starts: charset of one byte, encoding that is neither B nor Q
BadWords ==
    { [cs |-> <<"x">>, enc |-> <<"B">>, data |-> <<"Q","Q","=","=">>],
      [cs |-> cUTF8, enc |-> <<"X">>, data |-> <<"a","b">>] }

RawPieces ==
    { <<" ">>, <<"a","b">>, <<"=","?">>,
      <<"=","?","G","B","K","?","Q","?","=","4","1">> }

TokPieces == {EncodedWord(w) : w \in GoodWords \cup BadWords} \cup RawPieces

RECURSIVE PieceSeqs(_, _)
\* all concatenations of at most n pieces
PieceSeqs(pieces, n) ==
    IF n = 0 THEN {<<>>}
    ELSE LET shorter == PieceSeqs(pieces, n - 1)
         IN shorter \cup {s \o q : s \in shorter, q \in pieces}

TokInputs == PieceSeqs(TokPieces, MaxTokPieces)

InitTokens ==
    /\ pc = "init"
    /\ line \in TokInputs
    /\ tokens = <<>>
    /\ addrs = <<>>
    /\ params = <<>>
    /\ callerData = <<>>
    /\ EmailData = <<>>
    /\ trimCopies = FALSE
    /\ parsers = NoParsers
    /\ facade = NoFacade
    /\ derived = NoDerived
    /\ shape = <<>>

CallParseMimeValueTokenNodes ==
    /\ pc = "init"
    /\ tokens' = ParseMimeValueTokenNodes(line)
    /\ pc' = "tokens"
    /\ UNCHANGED <<line, addrs, params, callerData, EmailData, trimCopies, parsers, facade, derived, shape>>

NextTokens == CallParseMimeValueTokenNodes

SpecTokens == InitTokens /\ [][NextTokens]_vars

\* C7: two encoded-words of the same charset and encoding separated by white
\* space yield one token, whose data decodes the concatenated payloads.
C7_AdjacentWordsMerge ==
    \A w1 \in GoodWords : \A w2 \in GoodWords : \A ws \in {<<" ">>} :
        ( /\ pc = "tokens"
          /\ ToUpper(w1.cs) = ToUpper(w2.cs)
          /\ ToUpper(w1.enc) = ToUpper(w2.enc)
          /\ line = EncodedWord(w1) \o ws \o EncodedWord(w2) )
        => /\ Len(tokens) = 1
           /\ tokens[1].Data
                = decodeItem([Charset |-> ToUpper(w1.cs), Encoding |-> ToUpper(w1.enc),
                              Data |-> w1.data \o w2.data]).Data

----------------------------------------------------------------------------
(* SpecParams: ParseMimeValueParams and ParseParamStringValue on a            *)
(* Content-Disposition value carrying RFC 2231 continuations filename*i*      *)

MaxPctPieces == 2

\* charset'language' prefixes of segment 0, with the charset they declare
Prefixes ==
    { [raw |-> cUTF8 \o <<"'","'">>, cs |-> cUTF8],
      [raw |-> <<"g","b","k","'","e","n","'">>, cs |-> <<"G","B","K">>],
      [raw |-> cutf8 \o <<"'">>, cs |-> cUTF8] }

\* pieces of percent-encoded text: the bytes a \o b mean m; a segment may end
\* between a and b
PctPieces ==
    { [a |-> <<"h","e","l","l","o","%","2">>, b |-> <<"0">>, m |-> <<"h","e","l","l","o"," ">>],
      [a |-> <<"w","o","r">>, b |-> <<"l","d">>, m |-> <<"w","o","r","l","d">>],
      [a |-> <<"%","4">>, b |-> <<"a">>, m |-> <<"J">>],
      [a |-> <<"%","z">>, b |-> <<"z">>, m |-> <<"%","z","z">>],
      [a |-> <<"%","4">>, b |-> <<>>, m |-> <<"%","4">>] }

Cuts == {"none", "before", "inside"}

RECURSIVE ShapeSeqs(_, _)
\* all sequences of at most n elements of S
ShapeSeqs(S, n) ==
    IF n = 0 THEN {<<>>}
    ELSE LET shorter == ShapeSeqs(S, n - 1)
         IN shorter \cup {Append(q, x) : q \in shorter, x \in S}

ParamShapes ==
    [prefix : Prefixes,
     pieces : ShapeSeqs([piece : PctPieces, cut : Cuts], MaxPctPieces),
     reversed : BOOLEAN,
     quoted : BOOLEAN]

RECURSIVE cutSegments(_, _)
\* the segment values: segs with the pieces ps appended, a new segment
\* started where a piece says so
cutSegments(segs, ps) ==
    IF ps = <<>> THEN segs
    ELSE
        LET p == Head(ps)
            n == Len(segs)
            next == IF p.cut = "before" THEN Append(segs, p.piece.a \o p.piece.b)
                    ELSE IF p.cut = "inside"
                         THEN Append([segs EXCEPT ![n] = @ \o p.piece.a], p.piece.b)
                    ELSE [segs EXCEPT ![n] = @ \o p.piece.a \o p.piece.b]
        IN cutSegments(next, Tail(ps))

ShapeSegments(sh) == cutSegments(<<sh.prefix.raw>>, sh.pieces)

cFilename == <<"f","i","l","e","n","a","m","e">>
cAttachment == <<"a","t","t","a","c","h","m","e","n","t">>

\* "; filename*i*=" value, for the segments in the order idx lists them
RECURSIVE paramList(_, _, _)
paramList(segs, idx, quoted) ==
    IF idx = <<>> THEN <<>>
    ELSE
        LET i == Head(idx)
            v == IF quoted THEN <<"\"">> \o segs[i + 1] \o <<"\"">> ELSE segs[i + 1]
        IN <<";", " ">> \o cFilename \o <<"*">> \o Itoa(i) \o <<"*", "=">> \o v
              \o paramList(segs, Tail(idx), quoted)

ParamLine(sh) ==
    LET segs == ShapeSegments(sh)
        n == Len(segs)
        idx == [j \in 1..n |-> IF sh.reversed THEN n - j ELSE j - 1]
    IN cAttachment \o paramList(segs, idx, sh.quoted)

InitParams ==
    /\ pc = "init"
    /\ shape \in ParamShapes
    /\ line = ParamLine(shape)
    /\ tokens = <<>>
    /\ addrs = <<>>
    /\ params = <<>>
    /\ callerData = <<>>
    /\ EmailData = <<>>
    /\ trimCopies = FALSE
    /\ parsers = NoParsers
    /\ facade = NoFacade
    /\ derived = NoDerived

\* vp := ParseMimeValueParams(line); vp.ParseParamStringValue("FILENAME", "UTF-8")
CallParseParamStringValue ==
    /\ pc = "init"
    /\ LET vp == ParseMimeValueParams(line)
       IN /\ params' = [Value |-> vp.Value, Params |-> vp.Params,
                        ret |-> ParseParamStringValue(vp, cFilename, cUTF8)]
          /\ tokens' = decodedParamNodes(vp, cFilename)
    /\ pc' = "param"
    /\ UNCHANGED <<line, addrs, callerData, EmailData, trimCopies, parsers, facade, derived, shape>>

NextParams == CallParseParamStringValue

SpecParams == InitParams /\ [][NextParams]_vars

\* what the pieces of a shape mean, in order
RECURSIVE Meaning(_)
Meaning(ps) == IF ps = <<>> THEN <<>> ELSE Head(ps).piece.m \o Meaning(Tail(ps))

\* C10: with filename*0*, filename*1*, ... (no plain filename, no filename*)
\* the accessor joins the segments in index order whatever their order in the
\* header, reads the charset before the first "'", skips the language and
\* percent-decodes the rest.
C10_ContinuationsDecoded ==
    pc = "param" =>
        /\ params.ret = Meaning(shape.pieces)
        /\ tokens = <<[Charset |-> shape.prefix.cs, Data |-> Meaning(shape.pieces)]>>

\* the segments come last index first in the header, a %HH escape is split
\* over two segments, and the result is the claim's "hello world"
C10_Witness ==
    /\ pc = "param"
    /\ shape.reversed
    /\ \E i \in 1..Len(shape.pieces) : shape.pieces[i].cut = "inside"
    /\ Len(ShapeSegments(shape)) >= 2
    /\ params.ret = <<"h","e","l","l","o"," ","w","o","r","l","d">>

----------------------------------------------------------------------------
(* SpecAddress: ParseMimeAddress and ParseMimeAddressFirstOne on address     *)
(* lists put together from items and separators                              *)

MaxAddrItems == 2

\* items of the form Name <addr> or "Quoted Name" <addr>, with the name and
\* the email each carries
GoodItems ==
    { [raw |-> <<"\"","A","l","i","c","e","\""," ","<","a","l","i","c","e","@","e","x","a","m","p","l","e",".","c","o","m",">">>,
       name |-> <<"A","l","i","c","e">>,
       email |-> <<"a","l","i","c","e","@","e","x","a","m","p","l","e",".","c","o","m">>],
      [raw |-> <<"B","o","b"," ","<","b","o","b","@","x",".","y",">">>,
       name |-> <<"B","o","b">>,
       email |-> <<"b","o","b","@","x",".","y">>],
      [raw |-> <<"\"","D","o","e",","," ","J",";","\""," ","<","J","D","@","X",".","Y",">">>,
       name |-> <<"D","o","e",","," ","J",";">>,
       email |-> <<"j","d","@","x",".","y">>],
      [raw |-> <<"=","?","u","t","f","-","8","?","q","?","C","_","D","?","="," ","<","e","@","f",".","g",">">>,
       name |-> <<"C"," ","D">>,
       email |-> <<"e","@","f",".","g">>] }

\* other items: interior space in the angle-addr, bare address, empty item,
\* nested "<" with padded address, unterminated quoted string
OtherItems ==
    { [raw |-> <<"<","a"," ","b","@","c",".","d",">">>],
      [raw |-> <<"x","@","Y",".","z">>],
      [raw |-> <<>>],
      [raw |-> <<"A","<","B","<"," ","c","@","D","\t",">">>],
      [raw |-> <<"\"","o","p","e","n">>] }

AddrSeps == { <<",">>, <<";", " ">> }

AddrItemRaws == {g.raw : g \in GoodItems} \cup {o.raw : o \in OtherItems}

AddrShapes == ShapeSeqs([raw : AddrItemRaws, sep : AddrSeps], MaxAddrItems)

\* item sep item sep ... item
RECURSIVE AddrLine(_)
AddrLine(sh) ==
    IF sh = <<>> THEN <<>>
    ELSE IF Len(sh) = 1 THEN sh[1].raw
    ELSE sh[1].raw \o sh[1].sep \o AddrLine(Tail(sh))

InitAddress ==
    /\ pc = "init"
    /\ shape \in AddrShapes
    /\ line = AddrLine(shape)
    /\ tokens = <<>>
    /\ addrs = [mas |-> <<>>, one |-> EmptyMimeAddress]
    /\ params = <<>>
    /\ callerData = <<>>
    /\ EmailData = <<>>
    /\ trimCopies = FALSE
    /\ parsers = NoParsers
    /\ facade = NoFacade
    /\ derived = NoDerived

CallParseMimeAddress ==
    /\ pc \in {"init", "first"}
    /\ addrs' = [addrs EXCEPT !.mas = ParseMimeAddress(line, cUTF8)]
    /\ pc' = IF pc = "init" THEN "addr" ELSE "both"
    /\ UNCHANGED <<line, tokens, params, callerData, EmailData, trimCopies, parsers, facade, derived, shape>>

CallParseMimeAddressFirstOne ==
    /\ pc \in {"init", "addr"}
    /\ addrs' = [addrs EXCEPT !.one = ParseMimeAddressFirstOne(line, cUTF8)]
    /\ pc' = IF pc = "init" THEN "first" ELSE "both"
    /\ UNCHANGED <<line, tokens, params, callerData, EmailData, trimCopies, parsers, facade, derived, shape>>

NextAddress == CallParseMimeAddress \/ CallParseMimeAddressFirstOne

SpecAddress == InitAddress /\ [][NextAddress]_vars

\* the addresses the calls made so far have returned
ReturnedAddresses ==
    (IF pc \in {"addr", "both"} THEN Range(addrs.mas) ELSE {})
        \cup (IF pc \in {"first", "both"} THEN {addrs.one} ELSE {})

\* C8 as claimed: no returned Email holds an uppercase ASCII letter or a
\* white space byte (SP, HT, CR, LF) anywhere.
C8_EmailLowerNoSpaceAnywhere ==
    \A a \in ReturnedAddresses :
        \A i \in 1..Len(a.Email) : a.Email[i] \notin UpperSet \cup CutWS

\* C8 as amended: no returned Email holds an uppercase ASCII letter, and none
\* begins or ends with a white space byte (SP, HT, CR, LF).
C8_EmailLowerAndTrimmed ==
    \A a \in ReturnedAddresses :
        /\ \A i \in 1..Len(a.Email) : a.Email[i] \notin UpperSet
        /\ Len(a.Email) > 0 =>
               a.Email[1] \notin CutWS /\ a.Email[Len(a.Email)] \notin CutWS

\* an address list with the interior-space angle-addr and with an address
\* written in capitals and padded inside the brackets has been parsed
C8_Witness ==
    /\ pc = "both"
    /\ \E i \in 1..Len(shape) : shape[i].raw = <<"<","a"," ","b","@","c",".","d",">">>
    /\ \E i \in 1..Len(shape) : shape[i].raw = <<"A","<","B","<"," ","c","@","D","\t",">">>
    /\ \E a \in Range(addrs.mas) : a.Email = <<"c","@","d">>
    /\ \E a \in Range(addrs.mas) : \E i \in 1..Len(a.Email) : a.Email[i] = " "

GoodOf(raw) == CHOOSE g \in GoodItems : g.raw = raw
AllGood(sh) == \A i \in 1..Len(sh) : sh[i].raw \in {g.raw : g \in GoodItems}

\* C9: n items Name <addr> / "Quoted Name" <addr> separated by "," or ";"
\* give exactly n addresses in input order, each with its own name and
\* email, and FirstOne is the first of them (the empty address for none).
C9_ItemsInOrder ==
    AllGood(shape) =>
        /\ pc \in {"addr", "both"} =>
               /\ Len(addrs.mas) = Len(shape)
               /\ \A i \in 1..Len(shape) :
                      /\ addrs.mas[i].Name = GoodOf(shape[i].raw).name
                      /\ addrs.mas[i].Email = GoodOf(shape[i].raw).email
        /\ pc \in {"first", "both"} =>
               IF Len(shape) = 0 THEN addrs.one = EmptyMimeAddress
               ELSE /\ addrs.one.Name = GoodOf(shape[1].raw).name
                    /\ addrs.one.Email = GoodOf(shape[1].raw).email

\* two items, the first with "," and ";" inside its quoted name
C9_Witness ==
    /\ pc = "both"
    /\ Len(shape) = 2
    /\ AllGood(shape)
    /\ shape[1].raw = <<"\"","D","o","e",","," ","J",";","\""," ","<","J","D","@","X",".","Y",">">>
    /\ Len(addrs.mas) = 2
    /\ addrs.one = addrs.mas[1]

----------------------------------------------------------------------------
(* SpecParse: EmailParserNew, once and again, on messages put together from  *)
(* header blocks, delimiter lines and parts                                  *)

MaxChilds == 2
MaxParses == 2

\* "To: a@x.y," CRLF SP "b@x.y" CRLF: a header folded over two lines
FoldedHeader == <<"T","o",":"," ","a","@","x",".","y",",","\r","\n"," ","b","@","x",".","y","\r","\n">>
\* the rest of a message that is not a multipart
PlainRest == <<"S","u","b","j","e","c","t",":"," ","s","\r","\n","\r","\n","h","e","l","l","o","\r","\n">>
\* the header block of a multipart/mixed of boundary b, and its blank line
MultipartHeader == <<"C","o","n","t","e","n","t","-","T","y","p","e",":"," ","m","u","l","t","i","p","a","r","t","/","m","i","x","e","d",";"," ","b","o","u","n","d","a","r","y","=","b","\r","\n","\r","\n">>
DelimiterLine == <<"-","-","b","\r","\n">>
CloseDelimiterLine == <<"-","-","b","-","-","\r","\n">>

PartKinds == {"leaf", "folded", "nested", "empty"}

\* the bytes between the delimiter line that opens a part and the next one
PartText(kind) ==
    CASE kind = "leaf" -> <<"C","o","n","t","e","n","t","-","T","y","p","e",":"," ","t","e","x","t","/","p","l","a","i","n","\r","\n","\r","\n","h","i","\r","\n">>
      [] kind = "folded" -> <<"C","o","n","t","e","n","t","-","D","i","s","p","o","s","i","t","i","o","n",":"," ","a","t","t","a","c","h","m","e","n","t",";","\r","\n","\t","f","i","l","e","n","a","m","e","=","f","\r","\n","\r","\n","h","i","\r","\n">>
      [] kind = "nested" -> <<"C","o","n","t","e","n","t","-","T","y","p","e",":"," ","m","u","l","t","i","p","a","r","t","/","a","l","t","e","r","n","a","t","i","v","e",";"," ","b","o","u","n","d","a","r","y","=","i","\r","\n","\r","\n","-","-","i","\r","\n","\r","\n","o","n","e","\r","\n","-","-","i","\r","\n","\r","\n","t","w","o","\r","\n","-","-","i","-","-","\r","\n">>
      [] kind = "empty" -> <<>>

Epilogues == {"none", "short", "long", "spaced"}
EpilogueText(e) ==
    CASE e = "none" -> <<>>
      [] e = "spaced" -> <<"\r","\n","e","p","i","l","o","g","u","e",":"," ","t","\r","\n","\r","\n","m","o","r","e","\r","\n">>
      [] e = "short" -> <<"b","y","e","\r","\n">>
      [] e = "long" -> <<"e","p","i","l","o","g","u","e"," ","t","e","x","t","\r","\n","m","o","r","e","\r","\n">>

\* buffers that are no message
Garbage ==
    { <<>>, <<"\n">>, <<"-","-">>, <<"-","-","\n">>, <<"\r","\n","\r","\n">>,
      <<" ","x","\n"," ","y">>, <<"x0","x255",":","x128","\n","\n","x1">>,
      <<"-","-","\n","-","-","\n">> }

ParseShapes ==
    [top : {"multipart"}, folded : BOOLEAN, parts : ShapeSeqs(PartKinds, MaxChilds),
     closed : BOOLEAN, epilogue : Epilogues, garbage : {<<>>}]
    \cup [top : {"plain"}, folded : BOOLEAN, parts : {<<>>},
          closed : {FALSE}, epilogue : {"none"}, garbage : {<<>>}]
    \cup [top : {"garbage"}, folded : {FALSE}, parts : {<<>>},
          closed : {FALSE}, epilogue : {"none"}, garbage : Garbage]

RECURSIVE PartsText(_)
PartsText(kinds) ==
    IF kinds = <<>> THEN <<>>
    ELSE DelimiterLine \o PartText(Head(kinds)) \o PartsText(Tail(kinds))

MessageOf(sh) ==
    IF sh.top = "garbage" THEN sh.garbage
    ELSE (IF sh.folded THEN FoldedHeader ELSE <<>>)
         \o (IF sh.top = "plain" THEN PlainRest
             ELSE MultipartHeader \o PartsText(sh.parts)
                  \o (IF sh.closed THEN CloseDelimiterLine ELSE <<>>)
                  \o EpilogueText(sh.epilogue))

InitParse ==
    /\ pc = "init"
    /\ shape \in ParseShapes
    /\ callerData = MessageOf(shape)
    /\ EmailData = callerData
    /\ trimCopies \in BOOLEAN
    /\ parsers = <<>>
    /\ line = <<>>
    /\ tokens = <<>>
    /\ addrs = <<>>
    /\ params = <<>>
    /\ facade = NoFacade
    /\ derived = NoDerived

\* parser := EmailParserNew(EmailParserOptions{EmailData: data}) on the
\* caller's slice, which EmailData is
CallEmailParserNew ==
    /\ pc \in {"init", "parsed"}
    /\ Len(parsers) < MaxParses
    /\ LET returned(r) ==
               /\ EmailData' = r.EmailData
               /\ parsers' = Append(parsers, r.parser)
               /\ pc' = IF r.parser.panicked THEN "panicked" ELSE "parsed"
       IN returned(EmailParserNew([DefaultCharset |-> <<>>, EmailData |-> EmailData],
                                  trimCopies))
    /\ UNCHANGED <<line, tokens, addrs, params, callerData, trimCopies, facade, derived, shape>>

NextParse == CallEmailParserNew

SpecParse == InitParse /\ [][NextParse]_vars

\* the slice expression EmailData[lo:hi] of GetDecodedContent is in range
SliceInRange(lo, hi, buf) == 0 <= lo /\ lo <= hi /\ hi <= Len(buf)

\* one past the last byte of a node
NodeEnd(n) == n.BodyStart + n.BodyLen

\* C1: EmailParserNew completes without a runtime fault on every buffer,
\* adjacent delimiter lines included, and the parser it returns has a top
\* node.
C1_NeverFaults ==
    \A k \in 1..Len(parsers) : ~parsers[k].panicked /\ parsers[k].topNode # 0

\* C2: in every tree parseMime builds, each child's [HeaderStart, NodeEnd)
\* lies within its parent's body [BodyStart, NodeEnd), and the intervals of
\* two children of one node are disjoint.
C2_ChildIntervals ==
    \A k \in 1..Len(parsers) :
        LET nodes == parsers[k].nodes
        IN \A p \in 1..Len(nodes) :
               /\ \A i \in 1..Len(nodes[p].Childs) :
                      LET c == nodes[nodes[p].Childs[i]]
                      IN /\ nodes[p].BodyStart <= c.HeaderStart
                         /\ NodeEnd(c) <= NodeEnd(nodes[p])
               /\ \A i, j \in 1..Len(nodes[p].Childs) :
                      LET c == nodes[nodes[p].Childs[i]]
                          d == nodes[nodes[p].Childs[j]]
                      IN i < j => NodeEnd(c) <= d.HeaderStart \/ NodeEnd(d) <= c.HeaderStart

\* C3: for every node of every parsed message,
\* 0 <= HeaderStart <= BodyStart <= BodyStart + BodyLen <= len(EmailData),
\* so that the slice expression of GetDecodedContent is in range.
C3_OffsetsInRange ==
    \A k \in 1..Len(parsers) :
        \A i \in 1..Len(parsers[k].nodes) :
            LET n == parsers[k].nodes[i]
            IN /\ 0 <= n.HeaderStart
               /\ n.HeaderStart <= n.BodyStart
               /\ n.BodyStart <= NodeEnd(n)
               /\ NodeEnd(n) <= Len(EmailData)
               /\ SliceInRange(n.BodyStart, n.BodyStart + n.BodyLen, EmailData)

\* a parsed multipart with a nested multipart in it: the top node's body ends
\* with the last byte of the buffer, and a part two levels down starts after
\* offset 0 and has a body of its own
C3_Witness ==
    /\ pc = "parsed"
    /\ parsers[1].topNode # 0
    /\ parsers[1].nodes[parsers[1].topNode].BodyLen > 0
    /\ NodeEnd(parsers[1].nodes[parsers[1].topNode]) = Len(EmailData)
    /\ \E i \in 1..Len(parsers[1].nodes) :
           /\ parsers[1].nodes[i].HeaderStart > 0
           /\ parsers[1].nodes[i].BodyLen > 0
           /\ parsers[1].nodes[i].Parent # 0
           /\ parsers[1].nodes[parsers[1].nodes[i].Parent].Parent # 0

\* C4: the raw buffer is never modified: every byte of EmailData is the byte
\* the caller passed in, folded header lines or not.
C4_BufferUnchanged == EmailData = callerData

\* C5: two calls of EmailParserNew on the same slice, one after the other,
\* return structurally equal trees: the same nodes, offsets, header lists
\* and derived fields.
C5_ParseTwiceEqual ==
    Len(parsers) >= 2 =>
        /\ parsers[2].nodes = parsers[1].nodes
        /\ parsers[2].topNode = parsers[1].topNode

----------------------------------------------------------------------------
(* The facade: the EmailParser's lazily derived fields.  A string is nil   *)
(* as <<>>, a *MIMENode is its index in the node table.                    *)

\* the header names the accessors look up
cHeader ==
    [MESSAGEID |-> <<"M","E","S","S","A","G","E","-","I","D">>,
     SUBJECT |-> <<"S","U","B","J","E","C","T">>,
     DATE |-> <<"D","A","T","E">>,
     RECEIVED |-> <<"R","E","C","E","I","V","E","D">>,
     FROM |-> <<"F","R","O","M">>,
     TO |-> <<"T","O">>,
     CC |-> <<"C","C">>,
     BCC |-> <<"B","C","C">>,
     SENDER |-> <<"S","E","N","D","E","R">>,
     REPLYTO |-> <<"R","E","P","L","Y","-","T","O">>,
     DISPOSITIONNOTIFICATIONTO |-> <<"D","I","S","P","O","S","I","T","I","O","N","-","N","O","T","I","F","I","C","A","T","I","O","N","-","T","O">>,
     REFERENCES |-> <<"R","E","F","E","R","E","N","C","E","S">>]

\* the texts classification and body decoding compare with
cType ==
    [MULTIPART |-> <<"M","U","L","T","I","P","A","R","T">>,
     APPLICATION |-> <<"A","P","P","L","I","C","A","T","I","O","N">>,
     MESSAGE |-> <<"M","E","S","S","A","G","E">>,
     TNEF |-> <<"T","N","E","F">>,
     DELIVERY |-> <<"D","E","L","I","V","E","R","Y">>,
     NOTIFICATION |-> <<"N","O","T","I","F","I","C","A","T","I","O","N">>,
     SlashPLAIN |-> <<"/","P","L","A","I","N">>,
     SlashHTML |-> <<"/","H","T","M","L">>,
     HTML |-> <<"H","T","M","L">>,
     PLAIN |-> <<"P","L","A","I","N">>,
     MultipartAlternative |-> <<"M","U","L","T","I","P","A","R","T","/","A","L","T","E","R","N","A","T","I","V","E">>,
     BASE64 |-> <<"B","A","S","E","6","4">>,
     QUOTEDPRINTABLE |-> <<"Q","U","O","T","E","D","-","P","R","I","N","T","A","B","L","E">>,
     cid |-> <<"c","i","d",":">>]

ReferenceSeparators == {",", ";", "<", ">", "\t", " ", "\n", "\r"}

\* the zero value of the derived fields of &EmailParser{...}
ZeroFacade ==
    [messageID |-> <<>>, messageIDDealed |-> FALSE,
     subject |-> <<>>, subjectDealed |-> FALSE,
     date |-> <<>>, dateUnix |-> 0, dateDealed |-> FALSE,
     from |-> EmptyMimeAddress, fromDealed |-> FALSE,
     to |-> <<>>, toDealed |-> FALSE,
     cc |-> <<>>, ccDealed |-> FALSE,
     bcc |-> <<>>, bccDealed |-> FALSE,
     sender |-> EmptyMimeAddress, senderDealed |-> FALSE,
     replyTo |-> EmptyMimeAddress, replyToDealed |-> FALSE,
     dispositionNotificationTo |-> EmptyMimeAddress,
     dispositionNotificationToDealed |-> FALSE,
     references |-> <<>>, referencesDealed |-> FALSE,
     textNodes |-> <<>>, attachmentNodes |-> <<>>, nodeClassified |-> FALSE,
     alternativeShowNodes |-> <<>>, alternativeShowNodesDealed |-> FALSE,
     inlineAttachmentNodesDealed |-> FALSE]

\* p.topNode.GetHeaderValueIgnoreNotFound(name) of the parser in hand
topHeader(name) ==
    GetHeaderValueIgnoreNotFound(parsers[1].nodes[parsers[1].topNode].Header, name)

\* net/mail's ParseDate on the date texts of the messages below: the time in
\* seconds since the epoch, or an error for a text in no RFC 5322 layout
mailParseDate(date) ==
    IF date = <<"T","h","u",","," ","0","1"," ","J","a","n"," ","1","9","7","0"," ","0","0",":","0","0",":","1","0"," ","+","0","0","0","0">> THEN [ok |-> TRUE, unix |-> 10]
    ELSE IF date = <<"1"," ","J","a","n"," ","1","9","7","0"," ","0","0",":","0","1",":","0","0"," ","+","0","0","0","0">> THEN [ok |-> TRUE, unix |-> 60]
    ELSE [ok |-> FALSE, unix |-> 0]

\* the date text parseDate leaves in p.date
dateText(h, received, date) ==
    IF h.found THEN TrimSpace(h.value)
    ELSE IF received.found /\ LastIndex(received.value, <<";">>) > 0
         THEN TrimSpace(From(received.value, LastIndex(received.value, <<";">>) + 1))
         ELSE date

dateUnixOf(date, dateUnix) ==
    IF date # <<>> /\ mailParseDate(date).ok THEN mailParseDate(date).unix ELSE dateUnix

parseDate(f, Header) ==
    [f EXCEPT !.date = dateText(GetHeaderValue(Header, cHeader.DATE),
                                GetHeaderValue(Header, cHeader.RECEIVED), f.date),
              !.dateUnix = dateUnixOf(dateText(GetHeaderValue(Header, cHeader.DATE),
                                               GetHeaderValue(Header, cHeader.RECEIVED), f.date),
                                      f.dateUnix)]

\* strings.FieldsFunc(s, f) with f true on the bytes of set
RECURSIVE FieldsFunc(_, _)
fieldsFrom(t, set) ==
    IF IndexIn(t, set) = -1 THEN <<t>>
    ELSE <<Slice(t, 0, IndexIn(t, set))>> \o FieldsFunc(From(t, IndexIn(t, set)), set)

FieldsFunc(s, set) ==
    IF IndexNotIn(s, set) = -1 THEN <<>> ELSE fieldsFrom(From(s, IndexNotIn(s, set)), set)

\* the loop of GetReferences over the fields
RECURSIVE referencesOf(_)
referencesOf(fields) ==
    IF fields = <<>> THEN <<>>
    ELSE (IF TrimSpace(Head(fields)) = <<>> THEN <<>> ELSE <<TrimSpace(Head(fields))>>)
         \o referencesOf(Tail(fields))

\* classifyNodes: the main type of a content type, and the list a node that
\* is not a multipart goes to
mainTypeOf(typeStr) ==
    IF Index(typeStr, <<"/">>) > 0 THEN Slice(typeStr, 0, Index(typeStr, <<"/">>))
    ELSE typeStr

listOf(typeStr, mainType) ==
    IF mainType = cType.MESSAGE
    THEN (IF Contains(typeStr, cType.DELIVERY) \/ Contains(typeStr, cType.NOTIFICATION)
          THEN "text" ELSE "attachment")
    ELSE IF mainType = cPart.Text
    THEN (IF Contains(typeStr, cType.SlashPLAIN) \/ Contains(typeStr, cType.SlashHTML)
          THEN "text" ELSE "attachment")
    ELSE "attachment"

tnefOf(typeStr, mainType) == mainType = cType.APPLICATION /\ Contains(typeStr, cType.TNEF)

\* walkAllNode over w = [nodes, textNodes, attachmentNodes]
RECURSIVE walkAllNode(_, _), walkChilds(_, _, _)
walkLeaf(w, id, typeStr, mainType) ==
    IF listOf(typeStr, mainType) = "text"
    THEN [w EXCEPT !.textNodes = Append(@, id)]
    ELSE [w EXCEPT !.attachmentNodes = Append(@, id),
                   !.nodes[id].isTnef = @ \/ tnefOf(typeStr, mainType)]

walkAllNode(w, id) ==
    IF mainTypeOf(w.nodes[id].ContentType) = cType.MULTIPART
    THEN walkChilds(w, w.nodes[id].Childs, 1)
    ELSE walkLeaf(w, id, w.nodes[id].ContentType, mainTypeOf(w.nodes[id].ContentType))

walkChilds(w, childs, i) ==
    IF i > Len(childs) THEN w
    ELSE walkChilds(walkAllNode(w, childs[i]), childs, i + 1)

\* classifyNodes on c = [f, nodes, runs]: the facade fields, the node table
\* and the derivations that have run
classified(c, w) ==
    [f |-> [c.f EXCEPT !.nodeClassified = TRUE, !.textNodes = w.textNodes,
                       !.attachmentNodes = w.attachmentNodes],
     nodes |-> w.nodes,
     runs |-> [c.runs EXCEPT !["classifyNodes"] = @ + 1]]

classifyNodesAgain(c, topNode) ==
    classified(c, walkAllNode([nodes |-> c.nodes, textNodes |-> c.f.textNodes,
                               attachmentNodes |-> c.f.attachmentNodes], topNode))

classifyNodes(c, topNode) ==
    IF c.f.nodeClassified THEN c
    ELSE classified(c, walkAllNode([nodes |-> c.nodes, textNodes |-> c.f.textNodes,
                                    attachmentNodes |-> c.f.attachmentNodes], topNode))

\* classifyAlternativeShowNodes: parts[1] of strings.SplitN(ContentType, "/", 2)
subTypeOf(ContentType) ==
    IF Index(ContentType, <<"/">>) = -1 THEN <<>>
    ELSE From(ContentType, Index(ContentType, <<"/">>) + 1)

\* the nearest MULTIPART/ALTERNATIVE ancestor's HeaderStart, which the key
\* "^_^%d" is made of; -1 for the empty key
RECURSIVE alternativeKeyOf(_, _)
alternativeKeyOf(nodes, parent) ==
    IF parent = 0 THEN -1
    ELSE IF nodes[parent].ContentType = cType.MultipartAlternative THEN nodes[parent].HeaderStart
    ELSE alternativeKeyOf(nodes, nodes[parent].Parent)

NoAlternativeSet == [HTML |-> 0, PLAIN |-> 0]

setOf(tmpShowSet, key) ==
    IF key \in DOMAIN tmpShowSet THEN tmpShowSet[key] ELSE NoAlternativeSet

putAlternative(tmpShowSet, key, subType, id) ==
    [k \in DOMAIN tmpShowSet \cup {key} |->
        IF k # key THEN tmpShowSet[k]
        ELSE IF subType = cType.HTML THEN [setOf(tmpShowSet, key) EXCEPT !.HTML = id]
        ELSE [setOf(tmpShowSet, key) EXCEPT !.PLAIN = id]]

\* the loop over p.textNodes on a = [vector, set]
groupOne(a, id, subType, key) ==
    IF (subType # cType.HTML /\ subType # cType.PLAIN) \/ key = -1
    THEN [a EXCEPT !.vector = Append(@, id)]
    ELSE [a EXCEPT !.set = putAlternative(@, key, subType, id)]

RECURSIVE groupTextNodes(_, _, _, _)
groupTextNodes(a, nodes, textNodes, i) ==
    IF i > Len(textNodes) THEN a
    ELSE groupTextNodes(groupOne(a, textNodes[i], subTypeOf(nodes[textNodes[i]].ContentType),
                                 alternativeKeyOf(nodes, nodes[textNodes[i]].Parent)),
                        nodes, textNodes, i + 1)

shownOfPlainFirst(ns) == IF ns.PLAIN # 0 THEN ns.PLAIN ELSE ns.HTML

\* the node a group shows: its HTML node, else its plain node
shownOf(ns) == IF ns.HTML # 0 THEN ns.HTML ELSE ns.PLAIN

\* the nodes of tmpShowVector when the loop over the map has run
shownNodes(a) == Range(a.vector) \cup ({shownOf(a.set[k]) : k \in DOMAIN a.set} \ {0})

\* sort.Slice by HeaderStart is not stable and the map is ranged over in no
\* fixed order: every ascending order of the nodes is a possible result
SortedOrders(nodes, ids) ==
    {s \in [1..Cardinality(ids) -> ids] :
        /\ \A i, j \in 1..Cardinality(ids) : i # j => s[i] # s[j]
        /\ \A i, j \in 1..Cardinality(ids) :
               i < j => nodes[s[i]].HeaderStart <= nodes[s[j]].HeaderStart}

alternativeShowOrders(nodes, textNodes) ==
    SortedOrders(nodes, shownNodes(groupTextNodes([vector |-> <<>>, set |-> <<>>],
                                                  nodes, textNodes, 1)))

----------------------------------------------------------------------------
(* The accessors of one parser, called in any order, any number of times   *)

MaxCalls == 3

\* a message with every header the facade reads; a multipart/mixed of a
\* multipart/alternative and an attachment, with a folded header and its
\* date in Received; a message without headers; a delivery report
FullMessage == <<"M","e","s","s","a","g","e","-","I","D",":"," ","<","m","1","@","x",".","y",">","\r","\n","S","u","b","j","e","c","t",":"," ","=","?","u","t","f","-","8","?","Q","?","h","i","?","="," ","t","h","e","r","e","\r","\n","D","a","t","e",":"," ","T","h","u",","," ","0","1"," ","J","a","n"," ","1","9","7","0"," ","0","0",":","0","0",":","1","0"," ","+","0","0","0","0","\r","\n","F","r","o","m",":"," ","A"," ","<","a","@","x",".","y",">","\r","\n","T","o",":"," ","b","@","x",".","y",","," ","C"," ","<","c","@","x",".","y",">","\r","\n","C","c",":"," ","d","@","x",".","y","\r","\n","B","c","c",":"," ","e","@","x",".","y","\r","\n","S","e","n","d","e","r",":"," ","s","@","x",".","y","\r","\n","R","e","p","l","y","-","T","o",":"," ","r","@","x",".","y","\r","\n","D","i","s","p","o","s","i","t","i","o","n","-","N","o","t","i","f","i","c","a","t","i","o","n","-","T","o",":"," ","n","@","x",".","y","\r","\n","R","e","f","e","r","e","n","c","e","s",":"," ","<","r","1","@","x",".","y",">"," ","<","r","2","@","x",".","y",">","\r","\n","\r","\n","h","e","l","l","o","\r","\n">>
AlternativeMessage == <<"R","e","c","e","i","v","e","d",":"," ","b","y"," ","x",".","y",";"," ","1"," ","J","a","n"," ","1","9","7","0"," ","0","0",":","0","1",":","0","0"," ","+","0","0","0","0","\r","\n","T","o",":"," ","a","@","x",".","y",",","\r","\n"," ","b","@","x",".","y","\r","\n","C","o","n","t","e","n","t","-","T","y","p","e",":"," ","m","u","l","t","i","p","a","r","t","/","m","i","x","e","d",";"," ","b","o","u","n","d","a","r","y","=","b","\r","\n","\r","\n","-","-","b","\r","\n","C","o","n","t","e","n","t","-","T","y","p","e",":"," ","m","u","l","t","i","p","a","r","t","/","a","l","t","e","r","n","a","t","i","v","e",";"," ","b","o","u","n","d","a","r","y","=","i","\r","\n","\r","\n","-","-","i","\r","\n","C","o","n","t","e","n","t","-","T","y","p","e",":"," ","t","e","x","t","/","p","l","a","i","n","\r","\n","\r","\n","o","n","e","\r","\n","-","-","i","\r","\n","C","o","n","t","e","n","t","-","T","y","p","e",":"," ","t","e","x","t","/","h","t","m","l","\r","\n","\r","\n","<","b",">","t","w","o","<","/","b",">","\r","\n","-","-","i","-","-","\r","\n","-","-","b","\r","\n","C","o","n","t","e","n","t","-","T","y","p","e",":"," ","a","p","p","l","i","c","a","t","i","o","n","/","m","s","-","t","n","e","f","\r","\n","C","o","n","t","e","n","t","-","I","D",":"," ","<","c","1",">","\r","\n","\r","\n","A","A","A","A","\r","\n","-","-","b","-","-","\r","\n">>
BareMessage == <<"\r","\n","b","o","d","y","\r","\n">>
ReportMessage == <<"D","a","t","e",":"," ","y","e","s","t","e","r","d","a","y","\r","\n","M","e","s","s","a","g","e","-","I","D",":"," ","\"","<","q","@","x",".","y",">","\"","\r","\n","C","o","n","t","e","n","t","-","T","y","p","e",":"," ","m","e","s","s","a","g","e","/","d","e","l","i","v","e","r","y","-","s","t","a","t","u","s","\r","\n","\r","\n","x","\r","\n">>
FacadeMessages == {FullMessage, AlternativeMessage, BareMessage, ReportMessage}

Derivations ==
    {"messageID", "subject", "date", "from", "to", "cc", "bcc", "sender", "replyTo",
     "dispositionNotificationTo", "references", "classifyNodes",
     "classifyAlternativeShowNodes", "classifyInlineAttachmentNodes"}

constructed(r) ==
    /\ EmailData = r.EmailData
    /\ parsers = <<r.parser>>
    /\ pc = IF r.parser.panicked THEN "panicked" ELSE "facade"

InitFacade ==
    /\ shape \in FacadeMessages
    /\ callerData = shape
    /\ trimCopies \in BOOLEAN
    /\ constructed(EmailParserNew([DefaultCharset |-> <<>>, EmailData |-> shape], trimCopies))
    /\ facade = ZeroFacade
    /\ derived = [runs |-> [d \in Derivations |-> 0], calls |-> 0, returned |-> <<>>]
    /\ line = <<>>
    /\ tokens = <<>>
    /\ addrs = <<>>
    /\ params = <<>>

CanCall == pc = "facade" /\ derived.calls < MaxCalls

\* what a call leaves: the fields, the derivations run so far, the value
\* it returns
Returns(f, runs, value) ==
    /\ facade' = f
    /\ derived' = [runs |-> runs, calls |-> derived.calls + 1, returned |-> value]

\* return p.field of the early return
Cached(field) == Returns(facade, derived.runs, facade[field])

\* the derivation d ran and left f; return p.field
Derive(d, f, field) == Returns(f, [derived.runs EXCEPT ![d] = @ + 1], f[field])

GetMessageID ==
    /\ CanCall
    /\ IF facade.messageIDDealed THEN Cached("messageID")
       ELSE Derive("messageID",
                   [facade EXCEPT !.messageID = TrimSet(topHeader(cHeader.MESSAGEID), CutIdWS)],
                   "messageID")
    /\ UNCHANGED <<pc, line, tokens, addrs, params, callerData, EmailData, trimCopies, shape, parsers>>

GetSubject ==
    /\ CanCall
    /\ IF facade.subjectDealed THEN Cached("subject")
       ELSE Derive("subject", [facade EXCEPT !.subjectDealed = TRUE,
                                   !.subject = ParseMimeValueString(topHeader(cHeader.SUBJECT), parsers[1].DefaultCharset)], "subject")
    /\ UNCHANGED <<pc, line, tokens, addrs, params, callerData, EmailData, trimCopies, shape, parsers>>

GetDate ==
    /\ CanCall
    /\ IF facade.dateDealed THEN Cached("date")
       ELSE Derive("date", parseDate([facade EXCEPT !.dateDealed = TRUE],
                                     parsers[1].nodes[parsers[1].topNode].Header), "date")
    /\ UNCHANGED <<pc, line, tokens, addrs, params, callerData, EmailData, trimCopies, shape, parsers>>

GetDateUnix ==
    /\ CanCall
    /\ IF facade.dateDealed THEN Cached("dateUnix")
       ELSE Derive("date", parseDate([facade EXCEPT !.dateDealed = TRUE],
                                     parsers[1].nodes[parsers[1].topNode].Header), "dateUnix")
    /\ UNCHANGED <<pc, line, tokens, addrs, params, callerData, EmailData, trimCopies, shape, parsers>>

GetFrom ==
    /\ CanCall
    /\ IF facade.fromDealed THEN Cached("from")
       ELSE Derive("from", [facade EXCEPT !.fromDealed = TRUE,
                                   !.from = ParseMimeAddressFirstOne(topHeader(cHeader.FROM), parsers[1].DefaultCharset)], "from")
    /\ UNCHANGED <<pc, line, tokens, addrs, params, callerData, EmailData, trimCopies, shape, parsers>>

GetTo ==
    /\ CanCall
    /\ IF facade.toDealed THEN Cached("to")
       ELSE Derive("to", [facade EXCEPT !.toDealed = TRUE,
                                   !.to = ParseMimeAddress(topHeader(cHeader.TO), parsers[1].DefaultCharset)], "to")
    /\ UNCHANGED <<pc, line, tokens, addrs, params, callerData, EmailData, trimCopies, shape, parsers>>

GetCc ==
    /\ CanCall
    /\ IF facade.ccDealed THEN Cached("cc")
       ELSE Derive("cc", [facade EXCEPT !.ccDealed = TRUE,
                                   !.cc = ParseMimeAddress(topHeader(cHeader.CC), parsers[1].DefaultCharset)], "cc")
    /\ UNCHANGED <<pc, line, tokens, addrs, params, callerData, EmailData, trimCopies, shape, parsers>>

GetBcc ==
    /\ CanCall
    /\ IF facade.bccDealed THEN Cached("bcc")
       ELSE Derive("bcc", [facade EXCEPT !.bccDealed = TRUE,
                                   !.bcc = ParseMimeAddress(topHeader(cHeader.BCC), parsers[1].DefaultCharset)], "bcc")
    /\ UNCHANGED <<pc, line, tokens, addrs, params, callerData, EmailData, trimCopies, shape, parsers>>

GetSender ==
    /\ CanCall
    /\ IF facade.senderDealed THEN Cached("sender")
       ELSE Derive("sender", [facade EXCEPT !.senderDealed = TRUE,
                                   !.sender = ParseMimeAddressFirstOne(topHeader(cHeader.SENDER), parsers[1].DefaultCharset)], "sender")
    /\ UNCHANGED <<pc, line, tokens, addrs, params, callerData, EmailData, trimCopies, shape, parsers>>

GetReplyTo ==
    /\ CanCall
    /\ IF facade.replyToDealed THEN Cached("replyTo")
       ELSE Derive("replyTo", [facade EXCEPT !.replyToDealed = TRUE,
                                   !.replyTo = ParseMimeAddressFirstOne(topHeader(cHeader.REPLYTO), parsers[1].DefaultCharset)], "replyTo")
    /\ UNCHANGED <<pc, line, tokens, addrs, params, callerData, EmailData, trimCopies, shape, parsers>>

GetDispositionNotificationTo ==
    /\ CanCall
    /\ IF facade.dispositionNotificationToDealed THEN Cached("dispositionNotificationTo")
       ELSE Derive("dispositionNotificationTo", [facade EXCEPT !.dispositionNotificationToDealed = TRUE,
                                   !.dispositionNotificationTo = ParseMimeAddressFirstOne(topHeader(cHeader.DISPOSITIONNOTIFICATIONTO), parsers[1].DefaultCharset)], "dispositionNotificationTo")
    /\ UNCHANGED <<pc, line, tokens, addrs, params, callerData, EmailData, trimCopies, shape, parsers>>

GetReferences ==
    /\ CanCall
    /\ IF facade.referencesDealed THEN Cached("references")
       ELSE Derive("references", [facade EXCEPT !.referencesDealed = TRUE,
                                   !.references = referencesOf(FieldsFunc(topHeader(cHeader.REFERENCES), ReferenceSeparators))], "references")
    /\ UNCHANGED <<pc, line, tokens, addrs, params, callerData, EmailData, trimCopies, shape, parsers>>

\* the facade, node table and derivation counts a classifying call starts on
classifying(f) == [f |-> f, nodes |-> parsers[1].nodes, runs |-> derived.runs]

\* a call that went through classifyNodes returns p.field
afterClassify(c, field) ==
    /\ Returns(c.f, c.runs, c.f[field])
    /\ parsers' = [parsers EXCEPT ![1].nodes = c.nodes]

GetTextNodes ==
    /\ CanCall
    /\ IF facade.nodeClassified THEN Cached("textNodes") /\ UNCHANGED parsers
       ELSE afterClassify(classifyNodes(classifying(facade), parsers[1].topNode), "textNodes")
    /\ UNCHANGED <<pc, line, tokens, addrs, params, callerData, EmailData, trimCopies, shape>>

GetAttachmentNodes ==
    /\ CanCall
    /\ IF facade.nodeClassified THEN Cached("attachmentNodes") /\ UNCHANGED parsers
       ELSE afterClassify(classifyNodes(classifying(facade), parsers[1].topNode),
                          "attachmentNodes")
    /\ UNCHANGED <<pc, line, tokens, addrs, params, callerData, EmailData, trimCopies, shape>>

\* classifyAlternativeShowNodes once classifyNodes has left c
afterAlternative(c) ==
    \E order \in alternativeShowOrders(c.nodes, c.f.textNodes) :
        /\ Returns([c.f EXCEPT !.alternativeShowNodes = order],
                   [c.runs EXCEPT !["classifyAlternativeShowNodes"] = @ + 1], order)
        /\ parsers' = [parsers EXCEPT ![1].nodes = c.nodes]

GetAlternativeShowNodes ==
    /\ CanCall
    /\ IF facade.alternativeShowNodesDealed
       THEN Cached("alternativeShowNodes") /\ UNCHANGED parsers
       ELSE afterAlternative(classifyNodes(
                classifying([facade EXCEPT !.alternativeShowNodesDealed = TRUE]),
                parsers[1].topNode))
    /\ UNCHANGED <<pc, line, tokens, addrs, params, callerData, EmailData, trimCopies, shape>>

NextFacade ==
    \/ GetMessageID
    \/ GetSubject
    \/ GetDate
    \/ GetDateUnix
    \/ GetFrom
    \/ GetTo
    \/ GetCc
    \/ GetBcc
    \/ GetSender
    \/ GetReplyTo
    \/ GetDispositionNotificationTo
    \/ GetReferences
    \/ GetTextNodes
    \/ GetAttachmentNodes
    \/ GetAlternativeShowNodes

SpecFacade == InitFacade /\ [][NextFacade]_vars

\* C6: every derived-field accessor is memoised: whatever the calls, the
\* derivation of a field runs on the first call only, so no derivation has
\* run more than once on one parser.
C6_DerivedOnce == pc = "facade" => \A d \in Derivations : derived.runs[d] <= 1

----------------------------------------------------------------------------
(* Body decoding and the inline attachments *)

\* base64.StdEncoding.DecodeString returns no error on s (CR and LF taken
\* out): whole quanta of alphabet bytes, the last one padded or not
RECURSIVE B64Intact(_)
B64Intact(s) ==
    IF s = <<>> THEN TRUE
    ELSE IF Len(s) < 4 THEN FALSE
    ELSE IF LeadIn(s, B64Set) >= 4 THEN B64Intact(From(s, 4))
    ELSE /\ Len(s) = 4
         /\ LeadIn(s, B64Set) \in {2, 3}
         /\ \A i \in (LeadIn(s, B64Set) + 1)..4 : s[i] = "="

\* quotedprintable.DecodeMimeBody (go-utils): "=HH" is the byte HH, "=" at
\* the end of a line is a soft line break, every other byte is itself
RECURSIVE DecodeMimeBody(_)
DecodeMimeBody(s) ==
    IF s = <<>> THEN <<>>
    ELSE IF s[1] = "=" /\ Len(s) >= 3 /\ s[2] \in HexSet /\ s[3] \in HexSet
         THEN <<ByteOf(HexVal[s[2]] * 16 + HexVal[s[3]])>> \o DecodeMimeBody(From(s, 3))
    ELSE IF s[1] = "=" /\ Len(s) >= 3 /\ s[2] = "\r" /\ s[3] = "\n"
         THEN DecodeMimeBody(From(s, 3))
    ELSE IF s[1] = "=" /\ Len(s) >= 2 /\ s[2] = "\n" THEN DecodeMimeBody(From(s, 2))
    ELSE <<s[1]>> \o DecodeMimeBody(Tail(s))

decodedBase64(body) == IF B64Intact(body) THEN B64Quanta(body) ELSE <<>>

\* GetDecodedContent(n) on the parser's EmailData
GetDecodedContent(n, buf) ==
    IF n.Encoding = cType.BASE64
    THEN decodedBase64(SelectSeq(Slice(buf, n.BodyStart, n.BodyStart + n.BodyLen),
                                 LAMBDA c : c \notin CutCRLF))
    ELSE IF n.Encoding = cType.QUOTEDPRINTABLE
    THEN DecodeMimeBody(Slice(buf, n.BodyStart, n.BodyStart + n.BodyLen))
    ELSE Slice(buf, n.BodyStart, n.BodyStart + n.BodyLen)

\* conBuilder: the decoded content of every alternative-show node, each
\* followed by "\n"
RECURSIVE showContents(_, _, _, _)
showContents(nodes, show, i, buf) ==
    IF i > Len(show) THEN <<>>
    ELSE GetDecodedContent(nodes[show[i]], buf) \o <<"\n">>
         \o showContents(nodes, show, i + 1, buf)

hasContentId(nodes, attachmentNodes) ==
    \E i \in 1..Len(attachmentNodes) : nodes[attachmentNodes[i]].ContentID # <<>>

markInlineAsWritten(nodes, attachmentNodes, con) ==
    [id \in 1..Len(nodes) |->
        IF /\ \E i \in 1..Len(attachmentNodes) : attachmentNodes[i] = id
           /\ nodes[id].ContentID # <<>>
           /\ Contains(con, cType.cid \o nodes[id].ContentID)
        THEN [nodes[id] EXCEPT !.isInline = TRUE]
        ELSE nodes[id]]

\* the loop that marks m.isInline, con being the lowercased contents
markInline(nodes, attachmentNodes, con) ==
    [id \in 1..Len(nodes) |->
        IF /\ \E i \in 1..Len(attachmentNodes) : attachmentNodes[i] = id
           /\ nodes[id].ContentID # <<>>
           /\ Contains(con, cType.cid \o ToLower(nodes[id].ContentID))
        THEN [nodes[id] EXCEPT !.isInline = TRUE]
        ELSE nodes[id]]

\* classifyInlineAttachmentNodes once classifyNodes and
\* classifyAlternativeShowNodes have left c
inlineMarked(c, buf) ==
    [f |-> c.f,
     nodes |-> IF hasContentId(c.nodes, c.f.attachmentNodes)
               THEN markInline(c.nodes, c.f.attachmentNodes,
                               ToLower(showContents(c.nodes, c.f.alternativeShowNodes, 1, buf)))
               ELSE c.nodes,
     runs |-> [c.runs EXCEPT !["classifyInlineAttachmentNodes"] = @ + 1]]

\* classifyAlternativeShowNodes left order in p.alternativeShowNodes
withAlternative(c, order) ==
    [c EXCEPT !.f.alternativeShowNodes = order,
              !.f.alternativeShowNodesDealed = TRUE,
              !.runs["classifyAlternativeShowNodes"] = @ + 1]

\* return n.isTnef, return n.isInline
returnsBit(c, n, bit) ==
    /\ Returns(c.f, c.runs, c.nodes[n][bit])
    /\ parsers' = [parsers EXCEPT ![1].nodes = c.nodes]

IsTnef ==
    /\ CanCall
    /\ \E n \in 1..Len(parsers[1].nodes) :
           returnsBit(classifyNodes(classifying(facade), parsers[1].topNode), n, "isTnef")
    /\ UNCHANGED <<pc, line, tokens, addrs, params, callerData, EmailData, trimCopies, shape>>

\* classifyInlineAttachmentNodes once classifyNodes has left c
afterInline(c, n) ==
    IF c.f.alternativeShowNodesDealed
    THEN returnsBit(inlineMarked(c, EmailData), n, "isInline")
    ELSE \E order \in alternativeShowOrders(c.nodes, c.f.textNodes) :
             returnsBit(inlineMarked(withAlternative(c, order), EmailData), n, "isInline")

IsInlineAttachment ==
    /\ CanCall
    /\ \E n \in 1..Len(parsers[1].nodes) :
           IF facade.inlineAttachmentNodesDealed
           THEN Returns(facade, derived.runs, parsers[1].nodes[n].isInline)
                /\ UNCHANGED parsers
           ELSE afterInline(classifyNodes(
                    classifying([facade EXCEPT !.inlineAttachmentNodesDealed = TRUE]),
                    parsers[1].topNode), n)
    /\ UNCHANGED <<pc, line, tokens, addrs, params, callerData, EmailData, trimCopies, shape>>

----------------------------------------------------------------------------
(* The classifying accessors on multipart messages *)

MaxClassParts == 2

PartHead(type) == <<"C","o","n","t","e","n","t","-","T","y","p","e",":"," ">> \o type \o <<"\r", "\n">>
\* the kinds of part, in the order they follow each other in a message
ClassKinds ==
    <<"both", "plainonly", "split", "html", "plain", "htmlx", "image", "tnef", "report",
      "rfc822">>

\* a part of each kind: a multipart/alternative of a plain and an HTML part
\* or of a plain part only, text parts (the HTML part is in base64 and names
\* cid C1 in capitals), an image with Content-ID C1, and other attachments;
\* "split" is a multipart of two plain parts with LF line ends, "cid:" the
\* last bytes of the first and "c1" the first bytes of the second
ClassPart(kind) ==
    CASE kind = "plain" -> PartHead(<<"t","e","x","t","/","p","l","a","i","n">>) \o <<"\r","\n","o","n","e","\r","\n">>
      [] kind = "html" ->
            PartHead(<<"t","e","x","t","/","h","t","m","l">>)
            \o <<"C","o","n","t","e","n","t","-","T","r","a","n","s","f","e","r","-","E","n","c","o","d","i","n","g",":"," ","b","a","s","e","6","4","\r","\n","\r","\n","P","G","l","t","Z","y","B","z","c","m","M","9","Q","0","l","E","O","k","M","x","P","g","=","=","\r","\n">>
      [] kind = "htmlx" -> PartHead(<<"t","e","x","t","/","h","t","m","l","x">>) \o <<"\r","\n","x","\r","\n">>
      [] kind = "both" ->
            PartHead(<<"m","u","l","t","i","p","a","r","t","/","a","l","t","e","r","n","a","t","i","v","e",";"," ","b","o","u","n","d","a","r","y","=","i">>) \o <<"\r","\n","-","-","i","\r","\n">>
            \o PartHead(<<"t","e","x","t","/","p","l","a","i","n">>) \o <<"\r","\n","o","n","e","\r","\n","-","-","i","\r","\n">>
            \o PartHead(<<"t","e","x","t","/","h","t","m","l">>) \o <<"\r","\n","<","b",">","t","w","o","<","/","b",">","\r","\n","-","-","i","-","-","\r","\n">>
      [] kind = "plainonly" ->
            PartHead(<<"m","u","l","t","i","p","a","r","t","/","a","l","t","e","r","n","a","t","i","v","e",";"," ","b","o","u","n","d","a","r","y","=","i">>) \o <<"\r","\n","-","-","i","\r","\n">>
            \o PartHead(<<"t","e","x","t","/","p","l","a","i","n">>) \o <<"\r","\n","o","n","e","\r","\n","-","-","i","-","-","\r","\n">>
      [] kind = "split" ->
            PartHead(<<"m","u","l","t","i","p","a","r","t","/","r","e","l","a","t","e","d",";"," ","b","o","u","n","d","a","r","y","=","i">>) \o <<"\r","\n","-","-","i","\n">>
            \o <<"C","o","n","t","e","n","t","-","T","y","p","e",":"," ","t","e","x","t","/","p","l","a","i","n","\n","\n","c","i","d",":","\n","-","-","i","\n">>
            \o <<"C","o","n","t","e","n","t","-","T","y","p","e",":"," ","t","e","x","t","/","p","l","a","i","n","\n","\n","c","1","\n","-","-","i","-","-","\n">>
      [] kind = "image" ->
            PartHead(<<"i","m","a","g","e","/","p","n","g">>)
            \o <<"C","o","n","t","e","n","t","-","I","D",":"," ","<","C","1",">","\r","\n","C","o","n","t","e","n","t","-","T","r","a","n","s","f","e","r","-","E","n","c","o","d","i","n","g",":"," ","b","a","s","e","6","4","\r","\n","\r","\n","A","A","A","A","\r","\n">>
      [] kind = "tnef" -> PartHead(<<"a","p","p","l","i","c","a","t","i","o","n","/","m","s","-","t","n","e","f">>) \o <<"\r","\n","A","A","A","A","\r","\n">>
      [] kind = "report" -> PartHead(<<"m","e","s","s","a","g","e","/","d","e","l","i","v","e","r","y","-","s","t","a","t","u","s">>) \o <<"\r","\n","r","\r","\n">>
      [] kind = "rfc822" -> PartHead(<<"m","e","s","s","a","g","e","/","r","f","c","8","2","2">>) \o <<"\r","\n","m","\r","\n">>

\* the kinds at increasing places of ClassKinds, at most MaxClassParts
KindChoices ==
    UNION {{[i \in 1..n |-> ClassKinds[at[i]]] :
               at \in {f \in [1..n -> 1..Len(ClassKinds)] :
                          \A i, j \in 1..n : i < j => f[i] < f[j]}} :
           n \in 0..MaxClassParts}

ClassShapes ==
    [top : {<<"m","u","l","t","i","p","a","r","t","/","m","i","x","e","d",";"," ","b","o","u","n","d","a","r","y","=","b">>, <<"m","u","l","t","i","p","a","r","t","/","a","l","t","e","r","n","a","t","i","v","e",";"," ","b","o","u","n","d","a","r","y","=","b">>},
     parts : KindChoices]

RECURSIVE ClassParts(_)
ClassParts(kinds) ==
    IF kinds = <<>> THEN <<>>
    ELSE DelimiterLine \o ClassPart(Head(kinds)) \o ClassParts(Tail(kinds))

ClassMessage(sh) ==
    PartHead(sh.top) \o <<"\r", "\n">> \o ClassParts(sh.parts) \o CloseDelimiterLine

InitClassify ==
    /\ shape \in ClassShapes
    /\ callerData = ClassMessage(shape)
    /\ trimCopies \in BOOLEAN
    /\ constructed(EmailParserNew([DefaultCharset |-> <<>>, EmailData |-> callerData],
                                  trimCopies))
    /\ facade = ZeroFacade
    /\ derived = [runs |-> [d \in Derivations |-> 0], calls |-> 0, returned |-> <<>>]
    /\ line = <<>>
    /\ tokens = <<>>
    /\ addrs = <<>>
    /\ params = <<>>

NextClassify ==
    \/ GetTextNodes
    \/ GetAttachmentNodes
    \/ GetAlternativeShowNodes
    \/ IsTnef
    \/ IsInlineAttachment

SpecClassify == InitClassify /\ [][NextClassify]_vars

----------------------------------------------------------------------------
(* Claims about the classifying accessors *)

\* the nearest MULTIPART/ALTERNATIVE ancestor of node n, 0 for none
RECURSIVE AlternativeAncestor(_, _)
AlternativeAncestor(nodes, n) ==
    IF nodes[n].Parent = 0 THEN 0
    ELSE IF nodes[nodes[n].Parent].ContentType = cType.MultipartAlternative
         THEN nodes[n].Parent
         ELSE AlternativeAncestor(nodes, nodes[n].Parent)

IsHtml(nodes, n) == nodes[n].ContentType = <<"T","E","X","T","/","H","T","M","L">>
IsPlain(nodes, n) == nodes[n].ContentType = cPart.TextPlain

\* the text nodes in the group of the alternative node a
GroupOf(nodes, text, a) ==
    {t \in text : (IsHtml(nodes, t) \/ IsPlain(nodes, t)) /\ AlternativeAncestor(nodes, t) = a}

\* show holds exactly one node of the group, an HTML node if there is one
OneOfGroup(nodes, group, show) ==
    /\ Cardinality(group \cap Range(show)) = 1
    /\ (\E t \in group : IsHtml(nodes, t))
           => \A t \in group \cap Range(show) : IsHtml(nodes, t)

AlternativeShown(nodes, text, show) ==
    /\ \A i, j \in 1..Len(show) :
           i < j => show[i] # show[j] /\ nodes[show[i]].HeaderStart <= nodes[show[j]].HeaderStart
    /\ Range(show) \subseteq text
    /\ \A t \in text : AlternativeAncestor(nodes, t) = 0
                           \/ ~(IsHtml(nodes, t) \/ IsPlain(nodes, t))
                       => t \in Range(show)
    /\ \A a \in 1..Len(nodes) :
           GroupOf(nodes, text, a) # {} => OneOfGroup(nodes, GroupOf(nodes, text, a), show)

\* C11: GetAlternativeShowNodes returns one node for each group of plain and
\* HTML text nodes under the same nearest MULTIPART/ALTERNATIVE ancestor (an
\* HTML node if the group has one, else a plain node), and with it every
\* text node outside such a group; the list ascends by HeaderStart.
C11_AlternativeShow ==
    (pc = "facade" /\ facade.alternativeShowNodesDealed)
        => AlternativeShown(parsers[1].nodes, Range(facade.textNodes),
                            facade.alternativeShowNodes)

\* the list was returned for a message with a group of a plain and an HTML
\* node and a text node outside every group
C11_Witness ==
    /\ pc = "facade"
    /\ facade.alternativeShowNodesDealed
    /\ derived.runs["classifyAlternativeShowNodes"] = 1
    /\ Len(facade.alternativeShowNodes) >= 2
    /\ \E a \in 1..Len(parsers[1].nodes) :
           Cardinality(GroupOf(parsers[1].nodes, Range(facade.textNodes), a)) >= 2

\* the decoded contents of the nodes of show, each followed by sep
RECURSIVE JoinedContents(_, _, _, _)
JoinedContents(nodes, show, sep, buf) ==
    IF show = <<>> THEN <<>>
    ELSE GetDecodedContent(nodes[Head(show)], buf) \o sep
         \o JoinedContents(nodes, Tail(show), sep, buf)

\* n is an attachment node with a Content-ID that text names after "cid:",
\* letter case aside
Referenced(nodes, attachments, n, text) ==
    /\ n \in attachments
    /\ nodes[n].ContentID # <<>>
    /\ Contains(ToLower(text), <<"c","i","d",":">> \o ToLower(nodes[n].ContentID))

\* C12 as stated: IsInlineAttachment(n) is true exactly when n is an
\* attachment node with a Content-ID and "cid:" with the lowercased
\* Content-ID occurs in the lowercased concatenation of the decoded contents
\* of the alternative-show nodes.
C12_InlineIffInConcatenation ==
    (pc = "facade" /\ facade.inlineAttachmentNodesDealed)
        => \A n \in 1..Len(parsers[1].nodes) :
               parsers[1].nodes[n].isInline
                   <=> Referenced(parsers[1].nodes, Range(facade.attachmentNodes), n,
                                  JoinedContents(parsers[1].nodes,
                                                 facade.alternativeShowNodes, <<>>, EmailData))

\* C12 amended: IsInlineAttachment(n) is true exactly when n is an
\* attachment node with a Content-ID and "cid:" with the lowercased
\* Content-ID occurs in the lowercased text made of the decoded contents of
\* the alternative-show nodes, each followed by a line feed; a reference
\* that begins in one content and ends in the next does not count.
C12_InlineIffInContents ==
    (pc = "facade" /\ facade.inlineAttachmentNodesDealed)
        => \A n \in 1..Len(parsers[1].nodes) :
               parsers[1].nodes[n].isInline
                   <=> Referenced(parsers[1].nodes, Range(facade.attachmentNodes), n,
                                  JoinedContents(parsers[1].nodes,
                                                 facade.alternativeShowNodes, <<"\n">>,
                                                 EmailData))

\* IsInlineAttachment has returned true for an image that a base64 HTML
\* part names, in the other letter case
C12_Witness ==
    /\ pc = "facade"
    /\ facade.inlineAttachmentNodesDealed
    /\ derived.runs["classifyInlineAttachmentNodes"] = 1
    /\ \E n \in 1..Len(parsers[1].nodes) :
           /\ parsers[1].nodes[n].isInline
           /\ parsers[1].nodes[n].ContentID = <<"C", "1">>
    /\ \E i \in 1..Len(facade.alternativeShowNodes) :
           parsers[1].nodes[facade.alternativeShowNodes[i]].Encoding = cType.BASE64

\* how often node n is in the list
TimesIn(list, n) == Cardinality({i \in 1..Len(list) : list[i] = n})

IsMultipart(ContentType) ==
    ContentType = cType.MULTIPART \/ HasPrefix(ContentType, cPart.MultipartSlash)

\* the content types of text nodes: TEXT/PLAIN, TEXT/HTML, and MESSAGE/*
\* that mentions DELIVERY or NOTIFICATION
IsTextType(ContentType) ==
    \/ ContentType = cPart.TextPlain
    \/ ContentType = <<"T","E","X","T","/","H","T","M","L">>
    \/ /\ HasPrefix(ContentType, <<"M","E","S","S","A","G","E","/">>)
       /\ Contains(ContentType, cType.DELIVERY) \/ Contains(ContentType, cType.NOTIFICATION)

\* C13: classification puts every node that is not a multipart in exactly
\* one of the text and attachment lists and a multipart in neither; the text
\* nodes are those of type TEXT/PLAIN, TEXT/HTML, or MESSAGE/* mentioning
\* DELIVERY or NOTIFICATION, every other node is an attachment node.
C13_Classification ==
    (pc = "facade" /\ facade.nodeClassified)
        => \A n \in 1..Len(parsers[1].nodes) :
               IF IsMultipart(parsers[1].nodes[n].ContentType)
               THEN TimesIn(facade.textNodes, n) + TimesIn(facade.attachmentNodes, n) = 0
               ELSE /\ TimesIn(facade.textNodes, n) + TimesIn(facade.attachmentNodes, n) = 1
                    /\ TimesIn(facade.textNodes, n) = 1
                           <=> IsTextType(parsers[1].nodes[n].ContentType)

----------------------------------------------------------------------------
(* The parameter map of ParseMimeValueParams *)

MaxParamItems == 3

\* parameters as written, with the name and value a well-formed one has:
\* the same name in both letter cases, a quoted value with ";" in it, blanks
\* around "=" and a stray word after the value; and malformed ones: a name
\* without "=", nothing at all, no name, two words before "="
ParamItems ==
    {[raw |-> <<"a","=","1">>, ok |-> TRUE, name |-> <<"A">>, value |-> <<"1">>],
     [raw |-> <<"A","=","2">>, ok |-> TRUE, name |-> <<"A">>, value |-> <<"2">>],
     [raw |-> <<"a","=","\"","3",";","4","\"">>, ok |-> TRUE, name |-> <<"A">>, value |-> <<"3",";","4">>],
     [raw |-> <<"b"," ","="," ","5"," ","x">>, ok |-> TRUE, name |-> <<"B">>, value |-> <<"5">>],
     [raw |-> <<"j","u","n","k">>, ok |-> FALSE, name |-> <<>>, value |-> <<>>],
     [raw |-> <<>>, ok |-> FALSE, name |-> <<>>, value |-> <<>>],
     [raw |-> <<"=","6">>, ok |-> FALSE, name |-> <<>>, value |-> <<>>],
     [raw |-> <<"j"," ","k","=","7">>, ok |-> FALSE, name |-> <<>>, value |-> <<>>]}

ParamSeps == {<<";">>, <<";", " ">>}

ParamMapShapes == [items : ShapeSeqs(ParamItems, MaxParamItems), sep : ParamSeps]

RECURSIVE ParamItemsText(_, _)
ParamItemsText(items, sep) ==
    IF items = <<>> THEN <<>>
    ELSE sep \o Head(items).raw \o ParamItemsText(Tail(items), sep)

ParamMapLine(sh) == <<"t","e","x","t","/","p","l","a","i","n">> \o ParamItemsText(sh.items, sh.sep)

InitParamMap ==
    /\ pc = "init"
    /\ shape \in ParamMapShapes
    /\ line = ParamMapLine(shape)
    /\ tokens = <<>>
    /\ addrs = <<>>
    /\ params = <<>>
    /\ callerData = <<>>
    /\ EmailData = <<>>
    /\ trimCopies = FALSE
    /\ parsers = NoParsers
    /\ facade = NoFacade
    /\ derived = NoDerived

\* vp := ParseMimeValueParams(line)
CallParseMimeValueParams ==
    /\ pc = "init"
    /\ params' = ParseMimeValueParams(line)
    /\ pc' = "params"
    /\ UNCHANGED <<line, tokens, addrs, callerData, EmailData, trimCopies, parsers, facade,
                   derived, shape>>

NextParamMap == CallParseMimeValueParams

SpecParamMap == InitParamMap /\ [][NextParamMap]_vars

\* the map of the well-formed items, the first of each name kept
RECURSIVE FirstWins(_, _)
FirstWins(items, mp) ==
    IF items = <<>> THEN mp
    ELSE FirstWins(Tail(items),
                   IF Head(items).ok /\ Head(items).name \notin DOMAIN mp
                   THEN (Head(items).name :> Head(items).value) @@ mp
                   ELSE mp)

TnefBits == [n \in 1..Len(parsers[1].nodes) |-> parsers[1].nodes[n].isTnef]
InlineBits == [n \in 1..Len(parsers[1].nodes) |-> parsers[1].nodes[n].isInline]

\* what one walk over the tree gives, whichever accessor asks for it
OneWalk ==
    walkAllNode([nodes |-> parsers[1].nodes, textNodes |-> <<>>, attachmentNodes |-> <<>>],
                parsers[1].topNode)

\* each list was built by one run, holds no node twice, and is the list of
\* one walk
BuiltOnce ==
    pc = "facade" =>
        /\ derived.runs["classifyNodes"] <= 1
        /\ derived.runs["classifyAlternativeShowNodes"] <= 1
        /\ derived.runs["classifyInlineAttachmentNodes"] <= 1
        /\ \A n \in 1..Len(parsers[1].nodes) :
               /\ TimesIn(facade.textNodes, n) <= 1
               /\ TimesIn(facade.attachmentNodes, n) <= 1
               /\ TimesIn(facade.alternativeShowNodes, n) <= 1
        /\ facade.nodeClassified =>
               /\ facade.textNodes = OneWalk.textNodes
               /\ facade.attachmentNodes = OneWalk.attachmentNodes
               /\ \A n \in 1..Len(parsers[1].nodes) : TnefBits[n] = OneWalk.nodes[n].isTnef

\* a call changes a list or a bit only when it is the first to classify it
WrittenOnce ==
    /\ facade.nodeClassified =>
           /\ facade'.nodeClassified
           /\ facade'.textNodes = facade.textNodes
           /\ facade'.attachmentNodes = facade.attachmentNodes
           /\ TnefBits' = TnefBits
    /\ facade.alternativeShowNodesDealed =>
           /\ facade'.alternativeShowNodesDealed
           /\ facade'.alternativeShowNodes = facade.alternativeShowNodes
    /\ facade.inlineAttachmentNodesDealed =>
           /\ facade'.inlineAttachmentNodesDealed
           /\ InlineBits' = InlineBits
    /\ ~facade.inlineAttachmentNodesDealed /\ ~facade'.inlineAttachmentNodesDealed
           => InlineBits' = InlineBits
    /\ ~facade.nodeClassified /\ ~facade'.nodeClassified => TnefBits' = TnefBits

\* C15: in any sequence and repetition of GetTextNodes, GetAttachmentNodes,
\* GetAlternativeShowNodes, IsTnef and IsInlineAttachment on one parser,
\* each is_tnef and is_inline bit is written at most once and each list is
\* built once: the values do not depend on which accessor came first, do
\* not change once they were returned, and no node is in a list twice.
C15_ClassifiedOnce == [](BuiltOnce) /\ [][pc = "facade" => WrittenOnce]_vars

\* three calls have been made, each classification has run, and a node is
\* marked inline
C15_Witness ==
    /\ pc = "facade"
    /\ derived.calls = 3
    /\ facade.nodeClassified
    /\ facade.alternativeShowNodesDealed
    /\ facade.inlineAttachmentNodesDealed
    /\ \E n \in 1..Len(parsers[1].nodes) : parsers[1].nodes[n].isInline

----------------------------------------------------------------------------
(* Malformed encoded-word starts: ParseMimeValueTokenNodes on inputs built
   from starts the scanner rejects, starts it accepts without a terminator,
   and plain text *)

MaxStartPieces == 3

StartPieces ==
    { <<"=","?","x","?","B","?","Q","Q","=","=","?","=">>,
      <<"=","?","U","T","F","-","8","?","X","?","a","b","?","=">>,
      <<"=","?","U","T","F","-","8","?","B","a","b","?","=">>,
      <<"=","?","U","T","F","-","8">>,
      <<"=","?","u","t","f","-","8","?","b","?","Q">>,
      <<"=","?","G","B","K","?","Q","?","=","4","1">>,
      <<"=","?","U","T","F","-","8","?","B","?","Q","U","J","D","?","=">>,
      <<"=","?">>,
      <<"a","b">>,
      <<" ">> }

StartInputs == PieceSeqs(StartPieces, MaxStartPieces)

InitStarts ==
    /\ pc = "init"
    /\ line \in StartInputs
    /\ tokens = <<>>
    /\ addrs = <<>>
    /\ params = <<>>
    /\ callerData = <<>>
    /\ EmailData = <<>>
    /\ trimCopies = FALSE
    /\ parsers = NoParsers
    /\ facade = NoFacade
    /\ derived = NoDerived
    /\ shape = <<>>

SpecStarts == InitStarts /\ [][NextTokens]_vars

\* the offsets of ln at which "=?" stands
MagicOffsets(ln) == {i \in 0..(Len(ln) - 2) : At(ln, i) = "=" /\ At(ln, i + 1) = "?"}

\* after the "=?" at offset i: a charset of at least two bytes up to the
\* next "?", then B or Q in either case, then "?"
StartFieldsAt(ln, i) ==
    LET cpos == IndexByte(From(ln, i + 2), "?")
    IN /\ cpos >= 2
       /\ Len(ln) >= i + 2 + cpos + 3
       /\ ToUpperByte(At(From(ln, i + 2), cpos + 1)) \in {"B", "Q"}
       /\ At(From(ln, i + 2), cpos + 2) = "?"

\* offset of the payload of the start at offset i
PayloadOffset(ln, i) == i + 2 + IndexByte(From(ln, i + 2), "?") + 3

\* an encoded-word "=?charset?E?data?=" stands at offset i
WordAt(ln, i) ==
    /\ StartFieldsAt(ln, i)
    /\ Contains(From(ln, PayloadOffset(ln, i)), <<"?", "=">>)

\* a start stands at offset i with at least two bytes after its last "?",
\* terminated or not
AcceptedStartAt(ln, i) ==
    /\ StartFieldsAt(ln, i)
    /\ Len(ln) - PayloadOffset(ln, i) >= 2

TokenData(ts) == ConcatByteSlices([i \in 1..Len(ts) |-> ts[i].Data])

AllLiteral == /\ \A i \in 1..Len(tokens) : tokens[i].Charset = <<>>
              /\ TokenData(tokens) = line

\* C16 as stated: an input that holds no well-formed encoded-word comes back
\* whole, as charset-less tokens whose data concatenate to the input
C16_NoWordAllLiteral ==
    (pc = "tokens" /\ \A i \in MagicOffsets(line) : ~WordAt(line, i)) => AllLiteral

\* C16: the call returns on every input, and an input that holds no start
\* the scanner accepts ("=?", a charset of two bytes or more, "?", B or Q,
\* "?", two more bytes) comes back whole, as charset-less tokens whose data
\* concatenate to the input
C16_NoStartAllLiteral ==
    (pc = "tokens" /\ \A i \in MagicOffsets(line) : ~AcceptedStartAt(line, i)) => AllLiteral

C16_Witness ==
    /\ pc = "tokens"
    /\ Cardinality(MagicOffsets(line)) >= 3
    /\ \A i \in MagicOffsets(line) : ~AcceptedStartAt(line, i)
    /\ \E i \in MagicOffsets(line) : IndexByte(From(line, i + 2), "?") = 1
    /\ \E i \in MagicOffsets(line) : IndexByte(From(line, i + 2), "?") = -1
    /\ \E i \in MagicOffsets(line) :
          LET cpos == IndexByte(From(line, i + 2), "?")
          IN /\ cpos >= 2
             /\ Len(line) >= i + 2 + cpos + 3
             /\ ToUpperByte(At(From(line, i + 2), cpos + 1)) \notin {"B", "Q"}
             /\ At(From(line, i + 2), cpos + 2) = "?"
    /\ Len(tokens) >= 3

----------------------------------------------------------------------------
(* Offsets of a node against the bytes they address *)

\* parseMimeSelf on the bytes EmailData[HeaderStart : BodyStart+BodyLen]
\* that the offsets of n address
AddressedNode(buf, n, copies, DefaultCharset) ==
    parseMimeSelf(buf, n.HeaderStart, NodeEnd(n) - n.HeaderStart, copies, DefaultCharset).node

\* n has the header list and the offsets of a, a's counted from HeaderStart
SameBlock(n, a) ==
    /\ n.Header = a.Header
    /\ n.HeaderLen = a.HeaderLen
    /\ n.BodyStart = n.HeaderStart + a.BodyStart
    /\ n.BodyLen = a.BodyLen

\* C17: the offsets of every node, the trailing child included, address the
\* bytes the node was parsed from: the header block begins at HeaderStart
\* and EmailData[BodyStart : BodyStart+BodyLen] is what follows its
\* separator, so that the bytes from HeaderStart to the end of the body
\* parse to the node's header list and offsets (stated for a buffer that is
\* as the caller passed it).
C17_OffsetsAddressParsedBytes ==
    (EmailData = callerData) =>
        \A k \in 1..Len(parsers) :
            \A i \in 1..Len(parsers[k].nodes) :
                SameBlock(parsers[k].nodes[i],
                          AddressedNode(EmailData, parsers[k].nodes[i], trimCopies,
                                        parsers[k].DefaultCharset))

----------------------------------------------------------------------------
(* The boundaries a child of the top node receives *)

\* entry i (from 0) of boundaries is a delimiter line of boundary b
IsDelimiterOf(boundaries, i, b) ==
    boundaries[i + 1].Boundary = b \/ boundaries[i + 1].Boundary = b \o <<"-","-">>

\* the pairs of delimiters of b between which parseMime makes a child
ChildPairs(boundaries, b) ==
    {pr \in (0..(Len(boundaries) - 1)) \X (0..(Len(boundaries) - 1)) :
        /\ pr[1] < pr[2]
        /\ IsDelimiterOf(boundaries, pr[1], b)
        /\ IsDelimiterOf(boundaries, pr[2], b)
        /\ \A j \in (pr[1] + 1)..(pr[2] - 1) : ~IsDelimiterOf(boundaries, j, b)}

TopBoundary(k) == parsers[k].nodes[parsers[k].topNode].Boundary

\* C18: the child made between two delimiters of the top node receives
\* every scanned boundary strictly between them, the last one included, so
\* that a nested multipart gets its own closing delimiter.
C18_ChildReceivesAllBetween ==
    \A k \in 1..Len(parsers) :
        (parsers[k].topNode # 0 /\ EmailData = callerData) =>
            \A pr \in ChildPairs(scanAllBoundaries(EmailData), TopBoundary(k)) :
                newBoundaries(scanAllBoundaries(EmailData), pr[1], pr[2])
                    = Slice(scanAllBoundaries(EmailData), pr[1] + 1, pr[2])

----------------------------------------------------------------------------
(* scanAllBoundaries on buffers of dashes, text, blanks and line ends; the
   list it returns is kept in derived *)

MaxScanPieces == 5

ScanPieces ==
    { <<"-">>, <<"-","-">>, <<"a">>, <<" ">>, <<"\n">>, <<"\r","\n">>,
      <<"-","-","a","-","-","\n">> }

ScanInputs == PieceSeqs(ScanPieces, MaxScanPieces)

InitScan ==
    /\ pc = "init"
    /\ EmailData \in ScanInputs
    /\ callerData = EmailData
    /\ derived = NoDerived
    /\ line = <<>>
    /\ tokens = <<>>
    /\ addrs = <<>>
    /\ params = <<>>
    /\ trimCopies = FALSE
    /\ parsers = NoParsers
    /\ facade = NoFacade
    /\ shape = <<>>

\* boundaries := scanAllBoundaries(p.EmailData)
CallScanAllBoundaries ==
    /\ pc = "init"
    /\ derived' = scanAllBoundaries(EmailData)
    /\ pc' = "scanned"
    /\ UNCHANGED <<line, tokens, addrs, params, callerData, EmailData, trimCopies, parsers, facade, shape>>

NextScan == CallScanAllBoundaries

SpecScan == InitScan /\ [][NextScan]_vars

\* a line of raw begins at offset i with "--" and a "\n" ends it
DelimiterLineAt(raw, i) ==
    /\ i + 2 <= Len(raw)
    /\ i = 0 \/ At(raw, i - 1) = "\n"
    /\ At(raw, i) = "-" /\ At(raw, i + 1) = "-"
    /\ Contains(From(raw, i + 2), <<"\n">>)

\* offset of the "\n" that ends the line beginning at offset i
LineEndAt(raw, i) == i + 2 + IndexByte(From(raw, i + 2), "\n")

RECURSIVE DelimiterLines(_, _)
\* the delimiter lines of raw from offset i on, in the order of their offsets
DelimiterLines(raw, i) ==
    IF i >= Len(raw) THEN <<>>
    ELSE IF DelimiterLineAt(raw, i)
    THEN <<[Boundary |-> TrimSpace(Slice(raw, i + 2, LineEndAt(raw, i))),
            Start |-> i,
            End |-> LineEndAt(raw, i) + 1]>> \o DelimiterLines(raw, i + 1)
    ELSE DelimiterLines(raw, i + 1)

----------------------------------------------------------------------------
(* Header blocks: EmailParserNew on buffers of header lines, continuation
   lines, empty lines and text, without delimiter lines *)

MaxHeaderPieces == 5

HeaderPieces ==
    { <<"A"," ",":"," ","1","\r","\n">>, <<"\t","d","\n">>, <<"e"," ","\r","\n">>,
      <<"\r","\n">>, <<"\n">>, <<"x">> }

HeaderInputs == PieceSeqs(HeaderPieces, MaxHeaderPieces)

InitHeader ==
    /\ pc = "init"
    /\ callerData \in HeaderInputs
    /\ EmailData = callerData
    /\ trimCopies \in BOOLEAN
    /\ parsers = <<>>
    /\ shape = <<>>
    /\ line = <<>>
    /\ tokens = <<>>
    /\ addrs = <<>>
    /\ params = <<>>
    /\ facade = NoFacade
    /\ derived = NoDerived

SpecHeader == InitHeader /\ [][NextParse]_vars

RECURSIVE RawLines(_)
\* raw cut after every "\n"
RawLines(raw) ==
    IF raw = <<>> THEN <<>>
    ELSE IF IndexByte(raw, "\n") = -1 THEN <<raw>>
    ELSE <<Slice(raw, 0, IndexByte(raw, "\n") + 1)>>
         \o RawLines(From(raw, IndexByte(raw, "\n") + 1))

IsEmptyLine(ln) == ln = <<"\n">> \/ ln = <<"\r","\n">>

RECURSIVE BlockLines(_)
\* the lines up to the first empty line, the empty line left out
BlockLines(lines) ==
    IF lines = <<>> \/ IsEmptyLine(Head(lines)) THEN <<>>
    ELSE <<Head(lines)>> \o BlockLines(Tail(lines))

RECURSIVE BlockEnd(_)
\* the length of the lines up to the first empty line, the empty line counted
BlockEnd(lines) ==
    IF lines = <<>> THEN 0
    ELSE IF IsEmptyLine(Head(lines)) THEN Len(Head(lines))
    ELSE Len(Head(lines)) + BlockEnd(Tail(lines))

RECURSIVE LogicalLines(_, _)
\* lines folded into logical lines without their line ends: a line that
\* begins with SP or HT continues the last logical line
LogicalLines(lines, done) ==
    IF lines = <<>> THEN done
    ELSE IF Head(lines)[1] \in {" ", "\t"}
    THEN LogicalLines(Tail(lines),
             IF done = <<>> THEN <<TrimRightSet(Tail(Head(lines)), CutCRLF)>>
             ELSE [done EXCEPT ![Len(done)] = TrimRightSet(@ \o Tail(Head(lines)), CutCRLF)])
    ELSE LogicalLines(Tail(lines), Append(done, TrimRightSet(Head(lines), CutCRLF)))

\* the header of a logical line: the name before the first ":" trimmed and
\* in upper case, the value after it trimmed, no value without ":"
HeaderOfLine(text) ==
    IF ":" \in Range(text)
    THEN [Name |-> ToUpper(TrimSpace(Slice(text, 0, IndexByte(text, ":")))),
          Value |-> TrimSpace(From(text, IndexByte(text, ":") + 1))]
    ELSE [Name |-> ToUpper(TrimSpace(text)), Value |-> <<>>]

HeadersOf(texts) == [i \in 1..Len(texts) |-> HeaderOfLine(texts[i])]

\* C20: the header block of the top node ends at the first empty line of
\* the buffer (LF or CRLF): its header list is the logical lines before that
\* line, split at the first ":" with the name trimmed and in upper case,
\* nothing after the empty line is a header, the body starts after the empty
\* line, and BodyStart = HeaderStart + HeaderLen + the length of the
\* separator between them, which is "", LF or CRLF.
C20_HeaderBlock ==
    (Len(parsers) >= 1 /\ parsers[1].topNode # 0) =>
        LET n == parsers[1].nodes[parsers[1].topNode]
        IN /\ n.Header = HeadersOf(LogicalLines(BlockLines(RawLines(callerData)), <<>>))
           /\ n.BodyStart = BlockEnd(RawLines(callerData))
           /\ n.BodyStart - (n.HeaderStart + n.HeaderLen) \in {0, 1, 2}
           /\ Slice(callerData, n.HeaderStart + n.HeaderLen, n.BodyStart)
                  \in {<<>>, <<"\n">>, <<"\r","\n">>}

\* a header block of two logical lines, one continued and one without ":",
\* ended by an empty line that text follows
C20_Witness ==
    /\ Len(parsers) >= 1
    /\ parsers[1].topNode # 0
    /\ Len(parsers[1].nodes[parsers[1].topNode].Header) >= 2
    /\ Len(BlockLines(RawLines(callerData))) > Len(parsers[1].nodes[parsers[1].topNode].Header)
    /\ \E i \in 1..Len(parsers[1].nodes[parsers[1].topNode].Header) :
           /\ parsers[1].nodes[parsers[1].topNode].Header[i].Value = <<>>
           /\ parsers[1].nodes[parsers[1].topNode].Header[i].Name = <<"E">>
    /\ \E i \in 1..Len(parsers[1].nodes[parsers[1].topNode].Header) :
           /\ parsers[1].nodes[parsers[1].topNode].Header[i].Name = <<"A">>
           /\ parsers[1].nodes[parsers[1].topNode].Header[i].Value = <<"1","d">>
    /\ parsers[1].nodes[parsers[1].topNode].BodyLen > 0
    /\ parsers[1].nodes[parsers[1].topNode].BodyStart
           = parsers[1].nodes[parsers[1].topNode].HeaderLen + 2

----------------------------------------------------------------------------
(* Quoted strings: ParseMimeValueParams on a quoted principal value or a
   quoted parameter value, followed by the parameter x=1 *)

MaxQuotedPieces == 3

\* what stands between the quotes, piece by piece: a byte as written, an
\* escaped quote, an escaped backslash, a backslash that escapes nothing
QuotedPieces ==
    {[raw |-> <<"a">>, means |-> <<"a">>],
     [raw |-> <<";">>, means |-> <<";">>],
     [raw |-> <<"\\","\"">>, means |-> <<"\"">>],
     [raw |-> <<"\\","\\">>, means |-> <<"\\">>],
     [raw |-> <<"\\","b">>, means |-> <<"\\","b">>]}

QuotedShapes ==
    [place : {"value", "param"}, pieces : ShapeSeqs(QuotedPieces, MaxQuotedPieces),
     closed : BOOLEAN]

RECURSIVE QuotedRaw(_)
QuotedRaw(pieces) ==
    IF pieces = <<>> THEN <<>> ELSE Head(pieces).raw \o QuotedRaw(Tail(pieces))

RECURSIVE QuotedMeans(_)
QuotedMeans(pieces) ==
    IF pieces = <<>> THEN <<>> ELSE Head(pieces).means \o QuotedMeans(Tail(pieces))

\* the quoted string as written, and what follows it
QuotedText(sh) == <<"\"">> \o QuotedRaw(sh.pieces) \o (IF sh.closed THEN <<"\"">> ELSE <<>>)
QuotedRest == <<";"," ","x","=","1">>

QuotedLine(sh) ==
    (IF sh.place = "value" THEN <<>> ELSE <<"t",";"," ","y","=">>) \o QuotedText(sh) \o QuotedRest

InitQuoted ==
    /\ pc = "init"
    /\ shape \in QuotedShapes
    /\ line = QuotedLine(shape)
    /\ tokens = <<>>
    /\ addrs = <<>>
    /\ params = <<>>
    /\ callerData = <<>>
    /\ EmailData = <<>>
    /\ trimCopies = FALSE
    /\ parsers = NoParsers
    /\ facade = NoFacade
    /\ derived = NoDerived

SpecQuoted == InitQuoted /\ [][NextParamMap]_vars

\* the value the quoted string of the line was parsed to
QuotedValue ==
    IF shape.place = "value" THEN params.Value
    ELSE IF MapHas(params.Params, <<"Y">>) THEN params.Params[<<"Y">>] ELSE <<"?">>

\* the parameter x=1 after the quoted string was parsed
RestParsed == MapHas(params.Params, <<"X">>) /\ params.Params[<<"X">>] = <<"1">>

\* C21: a quoted principal value or parameter value ends at the first quote
\* that is not escaped, \" being an escaped quote and \\ an escaped
\* backslash: its value is what stands between the quotes with the escapes
\* undone and the parameter after it is parsed; only a string without a
\* closing quote takes the rest of the input.
C21_EndsAtUnescapedQuote ==
    pc = "params" =>
        IF shape.closed
        THEN QuotedValue = QuotedMeans(shape.pieces) /\ RestParsed
        ELSE ~RestParsed

============================================================================
